---- MODULE Spec2Model ----
(***************************************************************************)
(* A model of parts of HMMER (DanielOlson/hmmer): the checkpointed DP      *)
(* matrix row layout (p7_filtermx.c), the generic and reference Viterbi,   *)
(* Forward and Backward fills with their tracebacks, the                    *)
(* anchor-set-constrained Forward and Backward fills, sequence emission    *)
(* (emit.c), and the generation and enumeration unit tests.                *)
(***************************************************************************)
EXTENDS Integers, Sequences, FiniteSets, TLC

VARIABLES ox, cpcall, gm, dsq, gx, tr, gt, uprm, vit, fwd, bck, rs,
          anch, mxu, mxd, asc, em, al, bnd, dec

vars == <<ox, cpcall, gm, dsq, gx, tr, gt, uprm, vit, fwd, bck, rs,
          anch, mxu, mxd, asc, em, al, bnd, dec>>

cpvars == <<ox, cpcall>>

gtvars == <<gm, dsq, gx, tr, gt>>

\* The value the variables of a part hold while another part runs.
Idle == "idle"

IdleGT == gm = Idle /\ dsq = Idle /\ gx = Idle /\ tr = Idle /\ gt = Idle

IdleCP == ox = Idle /\ cpcall = Idle

dpvars == <<uprm, vit, fwd, bck, rs>>

IdleDP == uprm = Idle /\ vit = Idle /\ fwd = Idle /\ bck = Idle /\ rs = Idle

ascvars == <<anch, mxu, mxd, asc>>

IdleASC == anch = Idle /\ mxu = Idle /\ mxd = Idle /\ asc = Idle

emvars == <<em>>

IdleEM == em = Idle

auxvars == <<al, bnd, dec>>

IdleAux == al = Idle /\ bnd = Idle /\ dec = Idle

Max2(a, b) == IF a >= b THEN a ELSE b

(***************************************************************************)
(* Part 1.  P7_FILTERMX: the checkpointed matrix and its row layout.       *)
(***************************************************************************)

\* Largest sequence length handed to Create/GrowTo.
MaxCpL == 8

\* Profile lengths tried: one that needs 2 vectors per row, one that needs 3.
CpMs == {4, 9}

\* Recommended memory limits tried, in bytes (5, 8 and 12 rows of width 128).
CpRamlimits == {640, 1024, 1536}

p7_VNF == 4

p7_VALIGN == 16

p7F_NSCELLS == 3

p7F_NXCELLS == 8

SizeofFloat == 4

P7F_NQF(M) == Max2(2, ((M - 1) \div p7_VNF) + 1)

ESL_UPROUND(n, m) == ((n + m - 1) \div m) * m

\* Row width in bytes, as computed in Create and again in GrowTo.
RowWidth(M) ==
  SizeofFloat * P7F_NQF(M) * p7F_NSCELLS * p7_VNF
    + ESL_UPROUND(SizeofFloat * p7F_NXCELLS, p7_VALIGN)

\* (sqrt(9 + 8L) - 3) / 2 as its floor and whether it has a fraction:
\* floor is the largest r with r^2 + 3r <= 2L.
minimum_rows(L) ==
  LET fl == CHOOSE r \in 0..L : r * r + 3 * r <= 2 * L
                                /\ (r + 1) * (r + 1) + 3 * (r + 1) > 2 * L
  IN  [fl |-> fl, frac |-> (fl * fl + 3 * fl # 2 * L)]

\* (sqrt(1 + 8(L-R)) - 1) / 2 as its floor and whether it has a fraction:
\* floor is the largest r with r^2 + r <= 2(L-R).
checkpointed_rows_mut(L, R) ==
  LET n  == L - R
      fl == CHOOSE r \in 0..n : r * r + r <= 2 * n
                                /\ (r + 1) * (r + 1) + (r + 1) > 2 * n
  IN  [fl |-> fl + 1, frac |-> (fl * fl + fl # 2 * n)]

checkpointed_rows(L, R) ==
  LET n  == L - R
      fl == CHOOSE r \in 0..n : r * r + r <= 2 * n
                                /\ (r + 1) * (r + 1) + (r + 1) > 2 * n
  IN  [fl |-> fl, frac |-> (fl * fl + fl # 2 * n)]

Ceil(x) == x.fl + (IF x.frac THEN 1 ELSE 0)

set_full(o, L) ==
  [o EXCEPT !.Ra = L, !.Rb = 0, !.Rc = 0, !.La = L, !.Lb = 0, !.Lc = 0,
            !.lay = "full"]

set_checkpointed(o, L, R) ==
  LET Rbc == checkpointed_rows(L, R - o.R0)
      Rc  == Rbc.fl
      Rb  == IF Rbc.frac THEN 1 ELSE 0
      Ra  == R - Rb - Rc - o.R0
      Lc  == ((Rc + 2) * (Rc + 1)) \div 2 - 1
  IN  [o EXCEPT !.Rc = Rc, !.Rb = Rb, !.Ra = Ra, !.Lc = Lc, !.La = Ra,
                !.Lb = L - Ra - Lc, !.lay = "checkpointed"]

set_redlined_mut(o, L, minR) ==
  LET Rc == minR.fl
      Lc == ((Rc + 2) * (Rc + 1)) \div 2 - 1
  IN  [o EXCEPT !.Rc = Rc, !.Rb = 0, !.Ra = 0, !.Lc = Lc, !.La = 0,
                !.Lb = L - 0 - Lc, !.lay = "redlined"]

set_redlined(o, L, minR) ==
  LET Rc == minR.fl
      Rb == IF minR.frac THEN 1 ELSE 0
      Lc == ((Rc + 2) * (Rc + 1)) \div 2 - 1
  IN  [o EXCEPT !.Rc = Rc, !.Rb = Rb, !.Ra = 0, !.Lc = Lc, !.La = 0,
                !.Lb = L - 0 - Lc, !.lay = "redlined"]

set_row_layout(o, allocL, maxR) ==
  LET Rbc      == minimum_rows(allocL)
      minR_chk == o.R0 + Ceil(Rbc)
      minR_all == o.R0 + allocL
  IN  IF minR_all <= maxR THEN set_full(o, allocL)
      ELSE IF minR_chk <= maxR THEN set_checkpointed(o, allocL, maxR)
      ELSE set_redlined(o, allocL, Rbc)

\* The matrix as p7_filtermx_Create() returns it.
p7_filtermx_Create(M, L, ramlimit) ==
  LET o0 == [M |-> 0, L |-> 0, R |-> 0, R0 |-> 3,
             Ra |-> 0, Rb |-> 0, Rc |-> 0, La |-> 0, Lb |-> 0, Lc |-> 0,
             allocW |-> RowWidth(M), nalloc |-> 0, ramlimit |-> ramlimit,
             allocR |-> 0, validR |-> 0, lay |-> "none"]
      maxR == ramlimit \div o0.allocW
      o1 == set_row_layout(o0, L, maxR)
      aR == o1.R0 + o1.Ra + o1.Rb + o1.Rc
  IN  [o1 EXCEPT !.allocR = aR, !.validR = aR, !.nalloc = aR * o1.allocW]

\* GrowTo that widens the rows without recounting the valid rows.
p7_filtermx_GrowTo_mut(o, M, L) ==
  LET minR_chk == Ceil(minimum_rows(L)) + o.R0
      W        == RowWidth(M)
  IN  IF W <= o.allocW /\ o.nalloc <= o.ramlimit /\ L + o.R0 <= o.validR
        THEN set_full(o, L)
      ELSE IF W <= o.allocW /\ o.nalloc <= o.ramlimit /\ minR_chk <= o.validR
        THEN set_checkpointed(o, L, o.validR)
      ELSE
        LET o1 == IF W > o.allocW
                    THEN [o EXCEPT !.allocW = W]
                    ELSE o
            maxR == o1.nalloc \div o1.allocW
            o2 == IF (o1.nalloc > o1.ramlimit /\ minR_chk <= maxR)
                      \/ minR_chk > o1.validR
                    THEN LET l  == set_row_layout(o1, L, maxR)
                             vR == l.R0 + l.Ra + l.Rb + l.Rc
                         IN  [l EXCEPT !.validR = vR, !.nalloc = vR * l.allocW]
                    ELSE IF L + o1.R0 <= o1.validR
                           THEN set_full(o1, L)
                           ELSE set_checkpointed(o1, L, o1.validR)
        IN  IF o2.validR > o2.allocR THEN [o2 EXCEPT !.allocR = o2.validR]
                                     ELSE o2

\* The matrix after p7_filtermx_GrowTo(ox, M, L).
p7_filtermx_GrowTo(o, M, L) ==
  LET minR_chk == Ceil(minimum_rows(L)) + o.R0
      W        == RowWidth(M)
  IN  IF W <= o.allocW /\ o.nalloc <= o.ramlimit /\ L + o.R0 <= o.validR
        THEN set_full(o, L)
      ELSE IF W <= o.allocW /\ o.nalloc <= o.ramlimit /\ minR_chk <= o.validR
        THEN set_checkpointed(o, L, o.validR)
      ELSE
        LET o1 == IF W > o.allocW
                    THEN [o EXCEPT !.allocW = W, !.validR = o.nalloc \div W]
                    ELSE o
            maxR == o1.nalloc \div o1.allocW
            o2 == IF (o1.nalloc > o1.ramlimit /\ minR_chk <= maxR)
                      \/ minR_chk > o1.validR
                    THEN LET l  == set_row_layout(o1, L, maxR)
                             vR == l.R0 + l.Ra + l.Rb + l.Rc
                         IN  [l EXCEPT !.validR = vR, !.nalloc = vR * l.allocW]
                    ELSE IF L + o1.R0 <= o1.validR
                           THEN set_full(o1, L)
                           ELSE set_checkpointed(o1, L, o1.validR)
        IN  IF o2.validR > o2.allocR THEN [o2 EXCEPT !.allocR = o2.validR]
                                     ELSE o2

p7_filtermx_Reuse(o) == [o EXCEPT !.M = 0, !.L = 0, !.R = 0]

InitCP ==
  \E M \in CpMs, L \in 1..MaxCpL, rl \in CpRamlimits :
     /\ ox = p7_filtermx_Create(M, L, rl)
     /\ cpcall = [op |-> "Create", M |-> M, L |-> L]
     /\ IdleGT
     /\ IdleDP
     /\ IdleASC
     /\ IdleEM
     /\ IdleAux

GrowTo ==
  \E M \in CpMs, L \in 1..MaxCpL :
     /\ ox' = p7_filtermx_GrowTo(ox, M, L)
     /\ cpcall' = [op |-> "GrowTo", M |-> M, L |-> L]
     /\ UNCHANGED <<gtvars, dpvars, ascvars, emvars, auxvars>>

Reuse ==
  /\ ox' = p7_filtermx_Reuse(ox)
  /\ cpcall' = [cpcall EXCEPT !.op = "Reuse"]
  /\ UNCHANGED <<gtvars, dpvars, ascvars, emvars, auxvars>>

NextCP == GrowTo \/ Reuse

SpecCP == InitCP /\ [][NextCP]_vars

\* Rows (beyond R0) that a layout with Ra uncheckpointed rows, Rb between
\* rows and Rc checkpointed rows can hold for a sequence of length L
\* (p7_filtermx.h, note [a]).
ValidLayout(L, Ra, Rb, Rc) ==
  LET Lc == ((Rc + 2) * (Rc + 1)) \div 2 - 1
      Lb == L - Ra - Lc
  IN  /\ Ra >= 0
      /\ \/ Rb = 0 /\ Lb = 0
         \/ Rb = 1 /\ 1 <= Lb /\ Lb <= Rc + 1

\* Largest Ra for which some valid layout uses at most R rows in all.
MaxRa(L, R, R0) ==
  LET fits == {a \in 0..L : \E b \in 0..1, c \in 0..L :
                  ValidLayout(L, a, b, c) /\ R0 + a + b + c <= R}
  IN  IF fits = {} THEN -1
      ELSE CHOOSE a \in fits : \A a2 \in fits : a2 <= a

MinFit == (Ceil(minimum_rows(cpcall.L)) + ox.R0) * ox.allocW <= ox.ramlimit

\* C9: the allocation exceeds ramlimit only if even the minimum fully
\* checkpointed layout for the most recent (M,L) cannot fit within ramlimit.
C9_claim == ox.nalloc > ox.ramlimit => ~MinFit

RECURSIVE GCD(_, _)
GCD(a, b) == IF b = 0 THEN a ELSE GCD(b, a % b)

Frac(n, d) == LET g == GCD(n, d) IN <<n \div g, d \div g>>

\* -eslINFINITY
MINUSINF == <<0, 1>>

\* The score 0.0
SC0 == <<1, 1>>

\* a + b on scores: the product of the ratios, cancelled crosswise first so
\* that no intermediate value is larger than the result.
Plus(a, b) ==
  IF a[1] = 0 \/ b[1] = 0 THEN MINUSINF
  ELSE LET g1 == GCD(a[1], b[2])
           g2 == GCD(b[1], a[2])
       IN  <<(a[1] \div g1) * (b[1] \div g2), (a[2] \div g2) * (b[2] \div g1)>>

Plus3(a, b, c) == Plus(Plus(a, b), c)

\* a > b on scores
ScGT(a, b) ==
  LET g == GCD(a[2], b[2])
  IN  a[1] * (b[2] \div g) > b[1] * (a[2] \div g)

\* a >= b on scores
ScGE(a, b) ==
  LET g == GCD(a[2], b[2])
  IN  a[1] * (b[2] \div g) >= b[1] * (a[2] \div g)

\* #define ESL_MAX(a,b) (((a)>(b))?(a):(b))
ESL_MAX(a, b) == IF ScGT(a, b) THEN a ELSE b

\* log(exp(a) + exp(b)), taken exactly
p7_FLogsum(a, b) ==
  LET g == GCD(a[2], b[2])
  IN  Frac(a[1] * (b[2] \div g) + b[1] * (a[2] \div g), (a[2] \div g) * b[2])

\* esl_FCompare(a, b, tol) == eslOK.  The scores of the model's profiles
\* that differ at all differ by far more than the relative tolerance, and
\* two infinities compare equal.
esl_FCompare(a, b) == a = b

(***************************************************************************)
(* Part 3.  p7_GViterbi, p7_GForward and p7_GTrace (dp_generic.c).         *)
(***************************************************************************)

\* Profile length and longest sequence for the generic DP routines.
GM_M == 2

MaxGL == 2

\* Residues: 0 is the consensus residue, 1 a residue the match states may
\* be unable to emit.
GResidues == {0, 1}

\* A P7_PROFILE: tsc[k][t] for k = 0..M-1, rsc[x][k] for k = 1..M, xsc.
\* Node 0 has no transitions but the entry B->M1; D1 does not exist.
GProfile(local, eloop, mi, e1) ==
  [M     |-> GM_M,
   local |-> local,
   tsc   |-> [k \in 0..(GM_M - 1) |->
               IF k = 0
                 THEN [BM |-> Frac(1, 2), MM |-> MINUSINF, IM |-> MINUSINF,
                       DM |-> MINUSINF, MD |-> MINUSINF, MI |-> MINUSINF,
                       II |-> MINUSINF, DD |-> MINUSINF]
                 ELSE [BM |-> IF local THEN Frac(1, 2) ELSE Frac(1, 8),
                       MM |-> Frac(1, 4), IM |-> Frac(1, 2),
                       DM |-> Frac(1, 2), MD |-> Frac(1, 2), MI |-> mi,
                       II |-> Frac(1, 2), DD |-> Frac(1, 2)]],
   rsc   |-> [x \in GResidues |-> [k \in 1..GM_M |->
               [MSC |-> IF x = 0 THEN Frac(2, 1) ELSE e1, ISC |-> SC0]]],
   xsc   |-> [N |-> [LOOP |-> Frac(1, 2), MOVE |-> Frac(1, 2)],
              E |-> [LOOP |-> eloop, MOVE |-> Frac(eloop[2] - eloop[1], eloop[2])],
              C |-> [LOOP |-> Frac(1, 2), MOVE |-> Frac(1, 2)],
              J |-> [LOOP |-> Frac(1, 2), MOVE |-> Frac(1, 2)]]]

GProfiles ==
  {GProfile(local, eloop, mi, e1) :
     local \in BOOLEAN, eloop \in {MINUSINF, Frac(1, 2)},
     mi \in {MINUSINF, Frac(1, 4)}, e1 \in {MINUSINF, Frac(1, 2)}}

\* Digital sequences dsq[1..L], L = 0..MaxGL.
GSeqs == UNION {[1..L -> GResidues] : L \in 0..MaxGL}

\* float esc = p7_profile_IsLocal(gm) ? 0 : -eslINFINITY;
Esc(g) == IF g.local THEN SC0 ELSE MINUSINF

\* Row 0 of the matrix, as p7_GViterbi and p7_GForward initialize it.
GRow0(g) ==
  [MMX |-> [k \in 0..g.M |-> MINUSINF],
   IMX |-> [k \in 0..g.M |-> MINUSINF],
   DMX |-> [k \in 0..g.M |-> MINUSINF],
   E |-> MINUSINF, N |-> SC0, J |-> MINUSINF, B |-> g.xsc.N.MOVE,
   C |-> MINUSINF]

\* Row i >= 1 of p7_GViterbi, from row i-1 and the residue x = dsq[i].
\* IMX(i,M) is not written by the fill and not read by the traceback.
GViterbiRow(g, x, p) ==
  LET M == g.M
      mmx == [k \in 0..M |->
               IF k = 0 THEN MINUSINF
               ELSE Plus(ESL_MAX(ESL_MAX(ESL_MAX(Plus(p.MMX[k-1], g.tsc[k-1].MM),
                                                 Plus(p.IMX[k-1], g.tsc[k-1].IM)),
                                         Plus(p.DMX[k-1], g.tsc[k-1].DM)),
                                 Plus(p.B, g.tsc[k-1].BM)),
                         g.rsc[x][k].MSC)]
      imx == [k \in 0..M |->
               IF k = 0 \/ k = M THEN MINUSINF
               ELSE Plus(ESL_MAX(Plus(p.MMX[k], g.tsc[k].MI),
                                 Plus(p.IMX[k], g.tsc[k].II)),
                         g.rsc[x][k].ISC)]
      dmx[k \in 0..M] ==
               IF k = 0 THEN MINUSINF
               ELSE ESL_MAX(Plus(mmx[k-1], g.tsc[k-1].MD),
                            Plus(dmx[k-1], g.tsc[k-1].DD))
      xE[k \in 0..(M - 1)] ==
               IF k = 0 THEN MINUSINF
               ELSE ESL_MAX(xE[k-1], Plus(mmx[k], Esc(g)))
      E == ESL_MAX(ESL_MAX(xE[M-1], mmx[M]), dmx[M])
      J == ESL_MAX(Plus(p.J, g.xsc.J.LOOP), Plus(E, g.xsc.E.LOOP))
      C == ESL_MAX(Plus(p.C, g.xsc.C.LOOP), Plus(E, g.xsc.E.MOVE))
      N == Plus(p.N, g.xsc.N.LOOP)
      B == ESL_MAX(Plus(N, g.xsc.N.MOVE), Plus(J, g.xsc.J.MOVE))
  IN  [MMX |-> mmx, IMX |-> imx, DMX |-> [k \in 0..M |-> dmx[k]],
       E |-> E, N |-> N, J |-> J, B |-> B, C |-> C]

\* Row i >= 1 of p7_GForward.
GForwardRow(g, x, p) ==
  LET M == g.M
      mmx == [k \in 0..M |->
               IF k = 0 THEN MINUSINF
               ELSE Plus(p7_FLogsum(p7_FLogsum(Plus(p.MMX[k-1], g.tsc[k-1].MM),
                                               Plus(p.IMX[k-1], g.tsc[k-1].IM)),
                                    p7_FLogsum(Plus(p.B, g.tsc[k-1].BM),
                                               Plus(p.DMX[k-1], g.tsc[k-1].DM))),
                         g.rsc[x][k].MSC)]
      imx == [k \in 0..M |->
               IF k = 0 \/ k = M THEN MINUSINF
               ELSE Plus(p7_FLogsum(Plus(p.MMX[k], g.tsc[k].MI),
                                    Plus(p.IMX[k], g.tsc[k].II)),
                         g.rsc[x][k].ISC)]
      dmx[k \in 0..M] ==
               IF k = 0 THEN MINUSINF
               ELSE p7_FLogsum(Plus(mmx[k-1], g.tsc[k-1].MD),
                               Plus(dmx[k-1], g.tsc[k-1].DD))
      xE[k \in 0..(M - 1)] ==
               IF k = 0 THEN MINUSINF
               ELSE p7_FLogsum(p7_FLogsum(Plus(mmx[k], Esc(g)),
                                          Plus(dmx[k], Esc(g))),
                               xE[k-1])
      E == p7_FLogsum(p7_FLogsum(mmx[M], dmx[M]), xE[M-1])
      J == p7_FLogsum(Plus(p.J, g.xsc.J.LOOP), Plus(E, g.xsc.E.LOOP))
      C == p7_FLogsum(Plus(p.C, g.xsc.C.LOOP), Plus(E, g.xsc.E.MOVE))
      N == Plus(p.N, g.xsc.N.LOOP)
      B == p7_FLogsum(Plus(N, g.xsc.N.MOVE), Plus(J, g.xsc.J.MOVE))
  IN  [MMX |-> mmx, IMX |-> imx, DMX |-> [k \in 0..M |-> dmx[k]],
       E |-> E, N |-> N, J |-> J, B |-> B, C |-> C]

\* The matrix p7_GViterbi leaves in gx: rows 0..L.
p7_GViterbi(sq, g) ==
  LET rows[i \in 0..Len(sq)] ==
        IF i = 0 THEN GRow0(g) ELSE GViterbiRow(g, sq[i], rows[i-1])
  IN  [i \in 0..Len(sq) |-> rows[i]]

\* The matrix p7_GForward leaves in gx: rows 0..L.
p7_GForward(sq, g) ==
  LET rows[i \in 0..Len(sq)] ==
        IF i = 0 THEN GRow0(g) ELSE GForwardRow(g, sq[i], rows[i-1])
  IN  [i \in 0..Len(sq) |-> rows[i]]

\* *opt_sc = XMX(L,p7G_C) + gm->xsc[p7P_C][p7P_MOVE]
GScore(mx, sq, g) == Plus(mx[Len(sq)].C, g.xsc.C.MOVE)

\* Bound on the iterations of the traceback loop that are followed.
MaxIter == 4 * (GM_M + MaxGL) + 4

TrTop(t) == t[Len(t)]

\* p7_trace_Append(tr, st, k, i)
p7_trace_Append(t, st, k, i) == Append(t, [st |-> st, k |-> k, i |-> i])

\* tr->i[tr->N-1] = i
SetTopI(t, i) == [t EXCEPT ![Len(t)].i = i]

RECURSIVE p7_trace_Reverse(_)
p7_trace_Reverse(t) ==
  IF t = <<>> THEN <<>> ELSE Append(p7_trace_Reverse(Tail(t)), Head(t))

\* ESL_XEXCEPTION(eslFAIL, "... at k=%d,i=%d", k, i): status is set and
\* control leaves the loop for ERROR; the trace is left as it is.
GTraceFail(s, st, k, i) ==
  [s EXCEPT !.pc = "done", !.status = "eslFAIL",
            !.err = [st |-> st, k |-> k, i |-> i]]

\* One iteration of the while loop of p7_GTrace: the new <<tr, gt>>.
GTraceIter(g, mx, t, s0) ==
  LET i  == s0.i
      k  == s0.k
      M  == g.M
      s  == [s0 EXCEPT !.iter = s0.iter + 1]
      st == TrTop(t).st
      x  == IF i >= 1 THEN dsq[i] ELSE 0
      MSC(kk) == g.rsc[x][kk].MSC
      ISC(kk) == g.rsc[x][kk].ISC
  IN
  CASE st = "C" ->
         IF mx[i].C = MINUSINF THEN <<t, GTraceFail(s, "C", 0, i)>>
         ELSE IF esl_FCompare(mx[i].C, Plus(mx[i-1].C, g.xsc.C.LOOP))
           THEN <<p7_trace_Append(SetTopI(t, i), "C", 0, 0), [s EXCEPT !.i = i - 1]>>
         ELSE IF esl_FCompare(mx[i].C, Plus(mx[i].E, g.xsc.E.MOVE))
           THEN <<p7_trace_Append(t, "E", 0, 0), s>>
         ELSE <<t, GTraceFail(s, "C", 0, i)>>
    [] st = "E" ->
         IF mx[i].E = MINUSINF THEN <<t, GTraceFail(s, "E", 0, i)>>
         ELSE IF esl_FCompare(mx[i].E, mx[i].MMX[M])
           THEN <<p7_trace_Append(t, "M", M, i), [s EXCEPT !.k = M]>>
         ELSE
           LET hits == {kk \in 1..(M - 1) :
                          esl_FCompare(mx[i].E, Plus(mx[i].MMX[kk], Esc(g)))}
           IN  IF hits # {}
                 THEN LET kk == CHOOSE h \in hits : \A h2 \in hits : h2 <= h
                      IN  <<p7_trace_Append(t, "M", kk, i), [s EXCEPT !.k = kk]>>
                 \* the for loop has run down to k = 0; the test is (k < 0)
                 ELSE LET kend == 0
                      IN  IF kend < 0 THEN <<t, GTraceFail(s, "E", 0, i)>>
                          ELSE <<t, [s EXCEPT !.k = kend]>>
    [] st = "M" ->
         IF mx[i].MMX[k] = MINUSINF THEN <<t, GTraceFail(s, "M", k, i)>>
         ELSE IF esl_FCompare(mx[i].MMX[k], Plus3(mx[i-1].B, g.tsc[k-1].BM, MSC(k)))
           THEN <<p7_trace_Append(t, "B", 0, 0), [s EXCEPT !.k = k - 1, !.i = i - 1]>>
         ELSE IF esl_FCompare(mx[i].MMX[k], Plus3(mx[i-1].MMX[k-1], g.tsc[k-1].MM, MSC(k)))
           THEN <<p7_trace_Append(t, "M", k - 1, i - 1), [s EXCEPT !.k = k - 1, !.i = i - 1]>>
         ELSE IF esl_FCompare(mx[i].MMX[k], Plus3(mx[i-1].IMX[k-1], g.tsc[k-1].IM, MSC(k)))
           THEN <<p7_trace_Append(t, "I", k - 1, i - 1), [s EXCEPT !.k = k - 1, !.i = i - 1]>>
         ELSE IF esl_FCompare(mx[i].MMX[k], Plus3(mx[i-1].DMX[k-1], g.tsc[k-1].DM, MSC(k)))
           THEN <<p7_trace_Append(t, "D", k - 1, 0), [s EXCEPT !.k = k - 1, !.i = i - 1]>>
         ELSE <<t, GTraceFail(s, "M", k, i)>>
    [] st = "D" ->
         IF mx[i].DMX[k] = MINUSINF THEN <<t, GTraceFail(s, "D", k, i)>>
         ELSE IF esl_FCompare(mx[i].DMX[k], Plus(mx[i].MMX[k-1], g.tsc[k-1].MD))
           THEN <<p7_trace_Append(t, "M", k - 1, i), [s EXCEPT !.k = k - 1]>>
         ELSE IF esl_FCompare(mx[i].DMX[k], Plus(mx[i].DMX[k-1], g.tsc[k-1].DD))
           THEN <<p7_trace_Append(t, "D", k - 1, 0), [s EXCEPT !.k = k - 1]>>
         ELSE <<t, GTraceFail(s, "D", k, i)>>
    [] st = "I" ->
         IF mx[i].IMX[k] = MINUSINF THEN <<t, GTraceFail(s, "I", k, i)>>
         ELSE IF esl_FCompare(mx[i].IMX[k], Plus3(mx[i-1].MMX[k], g.tsc[k].MI, ISC(k)))
           THEN <<p7_trace_Append(t, "M", k, i - 1), [s EXCEPT !.i = i - 1]>>
         ELSE IF esl_FCompare(mx[i].IMX[k], Plus3(mx[i-1].IMX[k], g.tsc[k].II, ISC(k)))
           THEN <<p7_trace_Append(t, "I", k, i - 1), [s EXCEPT !.i = i - 1]>>
         ELSE <<t, GTraceFail(s, "I", k, i)>>
    [] st = "N" ->
         IF mx[i].N = MINUSINF THEN <<t, GTraceFail(s, "N", 0, i)>>
         ELSE IF i = 0 THEN <<p7_trace_Append(t, "S", 0, 0), s>>
         ELSE IF esl_FCompare(mx[i].N, Plus(mx[i-1].N, g.xsc.N.LOOP))
           THEN <<p7_trace_Append(SetTopI(t, i), "N", 0, 0), [s EXCEPT !.i = i - 1]>>
         ELSE <<t, GTraceFail(s, "N", 0, i)>>
    [] st = "B" ->
         IF mx[i].B = MINUSINF THEN <<t, GTraceFail(s, "B", 0, i)>>
         ELSE IF esl_FCompare(mx[i].B, Plus(mx[i].N, g.xsc.N.MOVE))
           THEN <<p7_trace_Append(t, "N", 0, 0), s>>
         ELSE IF esl_FCompare(mx[i].B, Plus(mx[i].J, g.xsc.J.MOVE))
           THEN <<p7_trace_Append(t, "J", 0, 0), s>>
         ELSE <<t, GTraceFail(s, "B", 0, i)>>
    [] st = "J" ->
         IF mx[i].J = MINUSINF THEN <<t, GTraceFail(s, "J", 0, i)>>
         ELSE IF esl_FCompare(mx[i].J, Plus(mx[i-1].J, g.xsc.J.LOOP))
           THEN <<p7_trace_Append(SetTopI(t, i), "J", 0, 0), [s EXCEPT !.i = i - 1]>>
         ELSE IF esl_FCompare(mx[i].J, Plus(mx[i].E, g.xsc.E.LOOP))
           THEN <<p7_trace_Append(t, "E", 0, 0), s>>
         ELSE <<t, GTraceFail(s, "J", 0, i)>>
    [] OTHER -> <<t, GTraceFail(s, st, k, i)>>

InitGT ==
  /\ gm \in GProfiles
  /\ dsq \in GSeqs
  /\ gx = <<>>
  /\ tr = <<>>
  /\ gt = [pc |-> "start", fill |-> "none", i |-> 0, k |-> 0, iter |-> 0,
           status |-> "none", err |-> [st |-> "", k |-> 0, i |-> 0]]
  /\ IdleCP
  /\ IdleDP
  /\ IdleASC
  /\ IdleEM
  /\ IdleAux

\* p7_GViterbi(dsq, L, gm, gx, &sc)
GViterbi ==
  /\ gt.pc = "start"
  /\ gx' = p7_GViterbi(dsq, gm)
  /\ gt' = [gt EXCEPT !.pc = "filled", !.fill = "viterbi"]
  /\ UNCHANGED <<gm, dsq, tr, cpvars, dpvars, ascvars, emvars, auxvars>>

\* p7_GForward(dsq, L, gm, gx, &sc)
GForward ==
  /\ gt.pc = "start"
  /\ gx' = p7_GForward(dsq, gm)
  /\ gt' = [gt EXCEPT !.pc = "filled", !.fill = "forward"]
  /\ UNCHANGED <<gm, dsq, tr, cpvars, dpvars, ascvars, emvars, auxvars>>

\* p7_GTrace up to its loop: p7_trace_Reuse, the T and C states, i = L.
GTraceBegin ==
  /\ gt.pc = "filled"
  /\ tr' = p7_trace_Append(p7_trace_Append(<<>>, "T", 0, 0), "C", 0, 0)
  /\ gt' = [gt EXCEPT !.pc = "trace", !.i = Len(dsq), !.status = "eslOK"]
  /\ UNCHANGED <<gm, dsq, gx, cpvars, dpvars, ascvars, emvars, auxvars>>

\* One iteration of while (tr->st[tr->N-1] != p7T_S).
GTraceStep ==
  /\ gt.pc = "trace"
  /\ TrTop(tr).st # "S"
  /\ gt.iter < MaxIter
  /\ LET r == GTraceIter(gm, gx, tr, gt)
     IN  tr' = r[1] /\ gt' = r[2]
  /\ UNCHANGED <<gm, dsq, gx, cpvars, dpvars, ascvars, emvars, auxvars>>

\* The loop has reached S: p7_trace_Reverse and return eslOK.
GTraceEnd ==
  /\ gt.pc = "trace"
  /\ TrTop(tr).st = "S"
  /\ tr' = p7_trace_Reverse(tr)
  /\ gt' = [gt EXCEPT !.pc = "done", !.status = "eslOK"]
  /\ UNCHANGED <<gm, dsq, gx, cpvars, dpvars, ascvars, emvars, auxvars>>

NextGT == GViterbi \/ GForward \/ GTraceBegin \/ GTraceStep \/ GTraceEnd

SpecGT == InitGT /\ [][NextGT]_vars

\* The cell the traceback is at holds a score, and no edge into it in the
\* Viterbi recursion accounts for that score.
GNoEdgeMatches ==
  LET i  == gt.i
      k  == gt.k
      M  == gm.M
      st == TrTop(tr).st
      x  == IF i >= 1 THEN dsq[i] ELSE 0
      m  == gx
  IN
  CASE st = "C" -> /\ m[i].C # MINUSINF
                   /\ m[i].C # Plus(m[i].E, gm.xsc.E.MOVE)
                   /\ (i >= 1 => m[i].C # Plus(m[i-1].C, gm.xsc.C.LOOP))
    [] st = "E" -> /\ m[i].E # MINUSINF
                   /\ m[i].E # m[i].MMX[M]
                   /\ m[i].E # m[i].DMX[M]
                   /\ \A kk \in 1..(M - 1) : m[i].E # Plus(m[i].MMX[kk], Esc(gm))
    [] st = "M" -> /\ m[i].MMX[k] # MINUSINF
                   /\ i >= 1 /\ k >= 1
                   /\ \A v \in {Plus(m[i-1].B, gm.tsc[k-1].BM),
                                Plus(m[i-1].MMX[k-1], gm.tsc[k-1].MM),
                                Plus(m[i-1].IMX[k-1], gm.tsc[k-1].IM),
                                Plus(m[i-1].DMX[k-1], gm.tsc[k-1].DM)} :
                         m[i].MMX[k] # Plus(v, gm.rsc[x][k].MSC)
    [] st = "D" -> /\ m[i].DMX[k] # MINUSINF
                   /\ k >= 1
                   /\ m[i].DMX[k] # Plus(m[i].MMX[k-1], gm.tsc[k-1].MD)
                   /\ m[i].DMX[k] # Plus(m[i].DMX[k-1], gm.tsc[k-1].DD)
    [] st = "I" -> /\ m[i].IMX[k] # MINUSINF
                   /\ i >= 1 /\ k >= 1 /\ k < M
                   /\ \A v \in {Plus(m[i-1].MMX[k], gm.tsc[k].MI),
                                Plus(m[i-1].IMX[k], gm.tsc[k].II)} :
                         m[i].IMX[k] # Plus(v, gm.rsc[x][k].ISC)
    [] st = "N" -> /\ m[i].N # MINUSINF
                   /\ i >= 1
                   /\ m[i].N # Plus(m[i-1].N, gm.xsc.N.LOOP)
    [] st = "B" -> /\ m[i].B # MINUSINF
                   /\ m[i].B # Plus(m[i].N, gm.xsc.N.MOVE)
                   /\ m[i].B # Plus(m[i].J, gm.xsc.J.MOVE)
    [] st = "J" -> /\ m[i].J # MINUSINF
                   /\ m[i].J # Plus(m[i].E, gm.xsc.E.LOOP)
                   /\ (i >= 1 => m[i].J # Plus(m[i-1].J, gm.xsc.J.LOOP))
    [] OTHER -> FALSE

\* C7: in p7_GTrace, whenever no incoming edge of the cell being traced (in
\* any state, E included) matches the stored value, the next step of the
\* traceback stops it with an error that names the state, k and i.
C7_claim ==
  [][(gt.pc = "trace" /\ GNoEdgeMatches)
       => (gt'.pc = "done" /\ gt'.status = "eslFAIL"
           /\ gt'.err.st = TrTop(tr).st /\ gt'.err.i = gt.i)]_vars

\* C6: when the C(L) stored by p7_GViterbi is -infinity, p7_GTrace returns
\* an empty trace (tr->N = 0) together with a failure status the caller can
\* handle.
C6_claim ==
  (gt.pc = "done" /\ gt.fill = "viterbi" /\ gx[Len(dsq)].C = MINUSINF)
     => (Len(tr) = 0 /\ gt.status = "eslFAIL")

(***************************************************************************)
(* Part 4.  The reference Viterbi, Forward and Backward fills              *)
(* (reference_viterbi.c, reference_fwdback.c) on the profile of the brute  *)
(* test.  Probabilities are fractions like the odds ratios of Part 2.      *)
(***************************************************************************)

\* Arithmetic on probabilities and odds ratios (the doubles of the test).
Mul(a, b) == Plus(a, b)

Add(a, b) == p7_FLogsum(a, b)

Div(a, b) == Plus(a, <<b[2], b[1]>>)

\* ESL_MAX(0.0, 1. - p)
OneMinus(p) == IF p[1] >= p[2] THEN MINUSINF ELSE Frac(p[2] - p[1], p[2])

Pr(n, d) == Frac(n, d)

\* int M = 3 in create_brute_models()
BruteM == 3

\* for (L = 1; L <= 4; L++) in utest_brute()
BruteMaxL == 4

\* Residue 0 is 'A'; residue 1 stands for the other residues of the
\* alphabet, which the brute model's match states all score alike.
DResidues == {0, 1}

\* Longest target sequence that is not all A's.
MaxMixL == 1

\* struct p7_brute_utest_s as sample_bruteparams() can fill it:
\* a, b, c, d, n, p, q are not 0; k is not 1; beta is 0.25.
BruteParam(ae, bf, cg, ij, l, m, pr, s) ==
  [a |-> ae[1], e |-> ae[2], b |-> bf[1], f |-> bf[2],
   c |-> cg[1], g |-> cg[2], d |-> Pr(1, 2),
   h |-> Pr(1, 2), i |-> ij, j |-> ij, k |-> Pr(1, 2),
   l |-> l, m |-> m,
   n |-> Pr(1, 2), p |-> pr[1], q |-> Pr(1, 2), r |-> pr[2], s |-> s,
   alpha |-> Pr(1, 2), beta |-> Pr(1, 4)]

\* (t[k][MM], t[k][MI]) pairs tried for the nodes.
BruteMMMI ==
  {<<Pr(1, 2), Pr(0, 1)>>, <<Pr(1, 2), Pr(1, 2)>>, <<Pr(1, 1), Pr(0, 1)>>}

BruteGrid ==
  {BruteParam(ae, bf, cg, ij, l, m, pr, s) :
     ae \in BruteMMMI, bf \in BruteMMMI, cg \in BruteMMMI,
     ij \in {Pr(1, 2), Pr(1, 1)},
     l  \in {Pr(0, 1), Pr(1, 2)},
     m  \in {Pr(0, 1), Pr(1, 2)},
     pr \in {<<Pr(1, 2), Pr(1, 2)>>, <<Pr(1, 1), Pr(1, 2)>>, <<Pr(1, 2), Pr(0, 1)>>},
     s  \in {Pr(0, 1), Pr(1, 2), Pr(1, 1)}}

\* set_LMk(): prm->LMk[1..3]
set_LMk(prm) ==
  LET o1 == Add(prm.a, prm.e)
      o2 == Add(Mul(o1, Add(prm.b, prm.f)), Mul(OneMinus(o1), OneMinus(prm.l)))
      o3 == Add(Mul(o2, Add(prm.c, prm.g)), Mul(OneMinus(o2), OneMinus(prm.m)))
      Z  == Add(Add(Mul(o1, Pr(3, 1)), Mul(o2, Pr(2, 1))), Mul(o3, Pr(1, 1)))
      sc(x) == IF ScGT(Z, MINUSINF) THEN Div(x, Z) ELSE x
  IN  [k \in 1..3 |-> IF k = 1 THEN sc(o1) ELSE IF k = 2 THEN sc(o2) ELSE sc(o3)]

\* The parameters tried: those of the grid whose entry distribution L->Mk
\* has denominators that keep the odds of every path of a target of length
\* 4 within the integers of the model.
BruteParams ==
  {pm \in BruteGrid : \A k \in 1..3 : set_LMk(pm)[k][2] \in {1, 2, 3, 4, 6, 8, 12, 16}}

\* hmm->t[k][] and the emission odds as create_brute_models() sets them.
BruteHmmT(prm) ==
  [k \in 0..BruteM |->
     CASE k = 0 -> [MM |-> prm.a, MI |-> prm.e,
                    MD |-> OneMinus(Add(prm.a, prm.e)),
                    IM |-> prm.h, II |-> OneMinus(prm.h),
                    DM |-> Pr(1, 1), DD |-> Pr(0, 1)]
       [] k = 1 -> [MM |-> prm.b, MI |-> prm.f,
                    MD |-> OneMinus(Add(prm.b, prm.f)),
                    IM |-> prm.i, II |-> OneMinus(prm.i),
                    DM |-> OneMinus(prm.l), DD |-> prm.l]
       [] k = 2 -> [MM |-> prm.c, MI |-> prm.g,
                    MD |-> OneMinus(Add(prm.c, prm.g)),
                    IM |-> prm.j, II |-> OneMinus(prm.j),
                    DM |-> OneMinus(prm.m), DD |-> prm.m]
       [] k = 3 -> [MM |-> prm.d, MI |-> OneMinus(prm.d),
                    MD |-> Pr(0, 1),
                    IM |-> prm.k, II |-> OneMinus(prm.k),
                    DM |-> Pr(1, 1), DD |-> Pr(0, 1)]]

\* bg->f[x] of the DNA alphabet
BgF == Pr(1, 4)

\* hmm->mat[k][x]: alpha for A, (1 - alpha) / (K - 1) for the rest.
BruteMat(prm, x) ==
  IF x = 0 THEN prm.alpha ELSE Div(OneMinus(prm.alpha), Pr(3, 1))

\* G->Mk+1 with the left wing folded in: G->D1, D1->..->Dk, Dk->Mk+1.
WingGM(t, k) ==
  IF k = 0 THEN OneMinus(t[0].MD)
  ELSE LET dd[j \in 0..(k - 1)] ==
             IF j = 0 THEN t[0].MD ELSE Mul(dd[j - 1], t[j].DD)
       IN  Mul(dd[k - 1], t[k].DM)

\* The profile create_brute_models() returns: p7_profile_Config() of the
\* HMM, then the xsc[] of the brute parameters.  tsc[k] holds the
\* transitions out of node k, and the entries L->Mk+1 and G->Mk+1.
BruteProfile(prm) ==
  LET t   == BruteHmmT(prm)
      LMk == set_LMk(prm)
  IN  [M   |-> BruteM,
       tsc |-> [k \in 0..(BruteM - 1) |->
                 [MM |-> IF k = 0 THEN MINUSINF ELSE t[k].MM,
                  IM |-> IF k = 0 THEN MINUSINF ELSE t[k].IM,
                  DM |-> IF k = 0 THEN MINUSINF ELSE t[k].DM,
                  MD |-> IF k = 0 THEN MINUSINF ELSE t[k].MD,
                  MI |-> IF k = 0 THEN MINUSINF ELSE t[k].MI,
                  II |-> IF k = 0 THEN MINUSINF ELSE t[k].II,
                  DD |-> IF k = 0 THEN MINUSINF ELSE t[k].DD,
                  LM |-> LMk[k + 1],
                  GM |-> WingGM(t, k)]],
       rsc |-> [x \in DResidues |-> [k \in 1..BruteM |->
                 [MSC |-> Div(BruteMat(prm, x), BgF), ISC |-> SC0]]],
       xsc |-> [N |-> [LOOP |-> OneMinus(prm.n), MOVE |-> prm.n],
                E |-> [LOOP |-> OneMinus(prm.p), MOVE |-> prm.p],
                C |-> [LOOP |-> OneMinus(prm.q), MOVE |-> prm.q],
                J |-> [LOOP |-> OneMinus(prm.r), MOVE |-> prm.r],
                B |-> [L |-> OneMinus(prm.s), G |-> prm.s],
                G |-> [M1 |-> Add(prm.a, prm.e),
                       D1 |-> OneMinus(Add(prm.a, prm.e))]]]

\* dsq[1..L]: the all-A targets of the brute test with L = 0 as well, and
\* short targets with other residues.
DSeqs ==
  {[i \in 1..L |-> 0] : L \in 0..BruteMaxL}
    \cup UNION {[1..L -> DResidues] : L \in 1..MaxMixL}

\* Row 0 of the matrix as p7_ReferenceViterbi and p7_ReferenceForward
\* initialize it.  A row holds the main cells for k = 0..M and the specials.
RefRow0_mut(g) ==
  LET inf == [k \in 0..g.M |-> MINUSINF]
  IN  [ML |-> inf, MG |-> inf, IL |-> inf, IG |-> inf, DL |-> inf, DG |-> inf,
       E |-> MINUSINF, N |-> SC0, J |-> MINUSINF, B |-> g.xsc.N.MOVE,
       L |-> g.xsc.N.MOVE,
       G |-> g.xsc.N.MOVE,
       C |-> MINUSINF]

RefRow0(g) ==
  LET inf == [k \in 0..g.M |-> MINUSINF]
  IN  [ML |-> inf, MG |-> inf, IL |-> inf, IG |-> inf, DL |-> inf, DG |-> inf,
       E |-> MINUSINF, N |-> SC0, J |-> MINUSINF, B |-> g.xsc.N.MOVE,
       L |-> Plus(g.xsc.N.MOVE, g.xsc.B.L),
       G |-> Plus(g.xsc.N.MOVE, g.xsc.B.G),
       C |-> MINUSINF]

\* Row i >= 1 of p7_ReferenceViterbi from row i-1 (p) and x = dsq[i].
\* xL and xG are the L and G of row i-1 while the main cells are computed.
RefViterbiRow(g, x, p) ==
  LET M == g.M
      t == g.tsc
      ml == [k \in 0..M |->
              IF k = 0 THEN MINUSINF
              ELSE Plus(g.rsc[x][k].MSC,
                        ESL_MAX(ESL_MAX(Plus(p.ML[k-1], t[k-1].MM),
                                        Plus(p.IL[k-1], t[k-1].IM)),
                                ESL_MAX(Plus(p.DL[k-1], t[k-1].DM),
                                        Plus(p.L, t[k-1].LM))))]
      mg == [k \in 0..M |->
              IF k = 0 THEN MINUSINF
              ELSE Plus(g.rsc[x][k].MSC,
                        ESL_MAX(ESL_MAX(Plus(p.MG[k-1], t[k-1].MM),
                                        Plus(p.IG[k-1], t[k-1].IM)),
                                ESL_MAX(Plus(p.DG[k-1], t[k-1].DM),
                                        Plus(p.G, t[k-1].GM))))]
      il == [k \in 0..M |->
              IF k = 0 \/ k = M THEN MINUSINF
              ELSE Plus(g.rsc[x][k].ISC,
                        ESL_MAX(Plus(p.ML[k], t[k].MI), Plus(p.IL[k], t[k].II)))]
      ig == [k \in 0..M |->
              IF k = 0 \/ k = M THEN MINUSINF
              ELSE Plus(g.rsc[x][k].ISC,
                        ESL_MAX(Plus(p.MG[k], t[k].MI), Plus(p.IG[k], t[k].II)))]
      dl[k \in 0..M] ==
              IF k <= 1 THEN MINUSINF
              ELSE ESL_MAX(Plus(ml[k-1], t[k-1].MD), Plus(dl[k-1], t[k-1].DD))
      dg[k \in 0..M] ==
              IF k <= 1 THEN MINUSINF
              ELSE ESL_MAX(Plus(mg[k-1], t[k-1].MD), Plus(dg[k-1], t[k-1].DD))
      xEk[k \in 0..(M - 1)] ==
              IF k = 0 THEN MINUSINF ELSE ESL_MAX(ml[k], xEk[k-1])
      xE == ESL_MAX(ESL_MAX(mg[M], dg[M]), ESL_MAX(xEk[M-1], ml[M]))
      xN == Plus(p.N, g.xsc.N.LOOP)
      xJ == ESL_MAX(Plus(p.J, g.xsc.J.LOOP), Plus(xE, g.xsc.E.LOOP))
      xB == ESL_MAX(Plus(xN, g.xsc.N.MOVE), Plus(xJ, g.xsc.J.MOVE))
  IN  [ML |-> ml, MG |-> mg, IL |-> il, IG |-> ig,
       DL |-> [k \in 0..M |-> dl[k]], DG |-> [k \in 0..M |-> dg[k]],
       E |-> xE, N |-> xN, J |-> xJ, B |-> xB,
       L |-> Plus(xB, g.xsc.B.L), G |-> Plus(xB, g.xsc.B.G),
       C |-> ESL_MAX(Plus(p.C, g.xsc.C.LOOP), Plus(xE, g.xsc.E.MOVE))]

\* Row i >= 1 of p7_ReferenceForward.
RefForwardRow(g, x, p) ==
  LET M == g.M
      t == g.tsc
      ml == [k \in 0..M |->
              IF k = 0 THEN MINUSINF
              ELSE Plus(g.rsc[x][k].MSC,
                        p7_FLogsum(p7_FLogsum(Plus(p.ML[k-1], t[k-1].MM),
                                              Plus(p.IL[k-1], t[k-1].IM)),
                                   p7_FLogsum(Plus(p.DL[k-1], t[k-1].DM),
                                              Plus(p.L, t[k-1].LM))))]
      mg == [k \in 0..M |->
              IF k = 0 THEN MINUSINF
              ELSE Plus(g.rsc[x][k].MSC,
                        p7_FLogsum(p7_FLogsum(Plus(p.MG[k-1], t[k-1].MM),
                                              Plus(p.IG[k-1], t[k-1].IM)),
                                   p7_FLogsum(Plus(p.DG[k-1], t[k-1].DM),
                                              Plus(p.G, t[k-1].GM))))]
      il == [k \in 0..M |->
              IF k = 0 \/ k = M THEN MINUSINF
              ELSE Plus(g.rsc[x][k].ISC,
                        p7_FLogsum(Plus(p.ML[k], t[k].MI), Plus(p.IL[k], t[k].II)))]
      ig == [k \in 0..M |->
              IF k = 0 \/ k = M THEN MINUSINF
              ELSE Plus(g.rsc[x][k].ISC,
                        p7_FLogsum(Plus(p.MG[k], t[k].MI), Plus(p.IG[k], t[k].II)))]
      dl[k \in 0..M] ==
              IF k <= 1 THEN MINUSINF
              ELSE p7_FLogsum(Plus(ml[k-1], t[k-1].MD), Plus(dl[k-1], t[k-1].DD))
      dg[k \in 0..M] ==
              IF k <= 1 THEN MINUSINF
              ELSE p7_FLogsum(Plus(mg[k-1], t[k-1].MD), Plus(dg[k-1], t[k-1].DD))
      xEk[k \in 0..(M - 1)] ==
              IF k = 0 THEN MINUSINF
              ELSE p7_FLogsum(p7_FLogsum(ml[k], dl[k]), xEk[k-1])
      xE == p7_FLogsum(xEk[M-1], p7_FLogsum(p7_FLogsum(ml[M], dl[M]),
                                            p7_FLogsum(mg[M], dg[M])))
      xN == Plus(p.N, g.xsc.N.LOOP)
      xJ == p7_FLogsum(Plus(p.J, g.xsc.J.LOOP), Plus(xE, g.xsc.E.LOOP))
      xB == p7_FLogsum(Plus(xN, g.xsc.N.MOVE), Plus(xJ, g.xsc.J.MOVE))
  IN  [ML |-> ml, MG |-> mg, IL |-> il, IG |-> ig,
       DL |-> [k \in 0..M |-> dl[k]], DG |-> [k \in 0..M |-> dg[k]],
       E |-> xE, N |-> xN, J |-> xJ, B |-> xB,
       L |-> Plus(xB, g.xsc.B.L), G |-> Plus(xB, g.xsc.B.G),
       C |-> p7_FLogsum(Plus(p.C, g.xsc.C.LOOP), Plus(xE, g.xsc.E.MOVE))]

\* The row of the singleton set one as it is once written to rmx->dp[i]:
\* its cells hold values.
StoredRow(one) == CHOOSE r \in one : r = r

\* The matrix p7_ReferenceViterbi leaves in rmx: rows 0..L.
RefViterbiMx_mut(sq, g) ==
  LET rows[i \in 0..Len(sq)] ==
        IF i = 0 THEN RefRow0(g) ELSE RefViterbiRow(g, sq[i], RefRow0(g))
  IN  [i \in 0..Len(sq) |-> rows[i]]

RefViterbiMx(sq, g) ==
  LET rows[i \in 0..Len(sq)] ==
        IF i = 0 THEN RefRow0(g)
        ELSE StoredRow({RefViterbiRow(g, sq[i], p) : p \in {rows[i-1]}})
  IN  [i \in 0..Len(sq) |-> rows[i]]

\* The matrix p7_ReferenceForward leaves in rmx: rows 0..L.
RefForwardMx_mut(sq, g) ==
  LET rows[i \in 0..Len(sq)] ==
        IF i = 0 THEN RefRow0(g) ELSE RefForwardRow(g, sq[i], RefRow0(g))
  IN  [i \in 0..Len(sq) |-> rows[i]]

RefForwardMx(sq, g) ==
  LET rows[i \in 0..Len(sq)] ==
        IF i = 0 THEN RefRow0(g)
        ELSE StoredRow({RefForwardRow(g, sq[i], p) : p \in {rows[i-1]}})
  IN  [i \in 0..Len(sq) |-> rows[i]]

\* p7_ReferenceViterbi: *opt_sc = *dpc + gm->xsc[p7P_C][p7P_MOVE]
RefViterbiScore(mx, sq, g) == Plus(mx[Len(sq)].C, g.xsc.C.MOVE)

\* p7_ReferenceForward: *opt_sc = dpc[p7R_C] + gm->xsc[p7P_C][p7P_MOVE]
RefForwardScore_mut(mx, sq, g) == Plus(mx[Len(sq)].N, g.xsc.C.MOVE)

RefForwardScore(mx, sq, g) == Plus(mx[Len(sq)].C, g.xsc.C.MOVE)

\* The product of a list of doubles.
RECURSIVE Prod(_)
Prod(v) == IF v = <<>> THEN Pr(1, 1) ELSE Mul(Head(v), Prod(Tail(v)))

\* esl_vec_DMax(v + from, n) and esl_vec_DSum(v + from, n) for an array
\* v[0..] held as a sequence.
RECURSIVE esl_vec_DMax(_, _, _)
esl_vec_DMax(v, from, n) ==
  IF n = 1 THEN v[from + 1]
  ELSE LET r == esl_vec_DMax(v, from, n - 1)
           x == v[from + n]
       IN  IF ScGT(x, r) THEN x ELSE r

RECURSIVE esl_vec_DSum(_, _, _)
esl_vec_DSum(v, from, n) ==
  IF n = 0 THEN Pr(0, 1)
  ELSE Add(esl_vec_DSum(v, from, n - 1), v[from + n])

\* score_brute(): sc[0..4], the Viterbi (do_viterbi) or Forward odds of the
\* all-A sequences of length 0..4, by enumeration of the paths.
score_brute(prm, do_viterbi) ==
  LET a == prm.a   b == prm.b   c == prm.c   e == prm.e   f == prm.f
      g == prm.g   i == prm.i   j == prm.j   l == prm.l   m == prm.m
      n == prm.n   p == prm.p   q == prm.q   r == prm.r   s == prm.s
      LMk == set_LMk(prm)
      LM1 == LMk[1]   LM2 == LMk[2]   LM3 == LMk[3]
      msc == Div(prm.alpha, BgF)
      isc == Div(prm.beta, BgF)
      ae  == Add(a, e)
      onem_s  == OneMinus(s)
      onem_ae == OneMinus(Add(a, e))
      onem_bf == OneMinus(Add(b, f))
      onem_l  == OneMinus(l)
      onem_cg == OneMinus(Add(c, g))
      onem_m  == OneMinus(m)
      onem_i  == OneMinus(i)
      onem_j  == OneMinus(j)
      onem_n  == OneMinus(n)
      onem_p  == OneMinus(p)
      onem_q  == OneMinus(q)
      onem_r  == OneMinus(r)
      Sel(v, from, cnt) == IF do_viterbi THEN esl_vec_DMax(v, from, cnt)
                                         ELSE esl_vec_DSum(v, from, cnt)
      cp == << Prod(<<msc, onem_s, LM1>>),
               Prod(<<msc, onem_s, LM2>>),
               Prod(<<msc, onem_s, LM3>>),
               Prod(<<msc, onem_s, LM1, onem_bf>>),
               Prod(<<msc, onem_s, LM2, onem_cg>>),
               Prod(<<msc, onem_s, LM1, onem_bf, m>>),
               Prod(<<msc, s, ae, onem_bf, m>>),
               Prod(<<msc, s, onem_ae, onem_l, onem_cg>>),
               Prod(<<msc, s, onem_ae, l, onem_m>>),
               Prod(<<msc, msc, onem_s, LM1, b>>),
               Prod(<<msc, msc, onem_s, LM2, c>>),
               Prod(<<msc, msc, onem_s, LM1, b, onem_cg>>),
               Prod(<<msc, msc, onem_s, LM1, onem_bf, onem_m>>),
               Prod(<<msc, msc, s, ae, b, onem_cg>>),
               Prod(<<msc, msc, s, ae, onem_bf, onem_m>>),
               Prod(<<msc, msc, s, onem_ae, onem_l, c>>),
               Prod(<<msc, msc, msc, onem_s, LM1, b, c>>),
               Prod(<<msc, isc, msc, onem_s, LM1, f, i, onem_cg>>),
               Prod(<<msc, isc, msc, onem_s, LM1, f, i>>),
               Prod(<<msc, isc, msc, onem_s, LM2, g, j>>),
               Prod(<<msc, msc, msc, s, ae, b, c>>),
               Prod(<<msc, isc, msc, s, ae, f, i, onem_cg>>),
               Prod(<<msc, isc, msc, s, onem_ae, onem_l, g, j>>),
               Prod(<<msc, isc, msc, msc, onem_s, LM1, f, i, c>>),
               Prod(<<msc, isc, isc, msc, onem_s, LM1, f, onem_i, i, onem_cg>>),
               Prod(<<msc, msc, isc, msc, onem_s, LM1, b, g, j>>),
               Prod(<<msc, isc, isc, msc, onem_s, LM1, f, onem_i, i>>),
               Prod(<<msc, isc, isc, msc, onem_s, LM2, g, onem_j, j>>),
               Prod(<<msc, isc, msc, msc, s, ae, f, i, c>>),
               Prod(<<msc, isc, isc, msc, s, ae, f, onem_i, i, onem_cg>>),
               Prod(<<msc, msc, isc, msc, s, ae, b, g, j>>),
               Prod(<<msc, isc, isc, msc, s, onem_ae, onem_l, g, onem_j, j>>) >>
      cL1 == Sel(cp, 0, 9)
      cL2 == Sel(cp, 9, 7)
      cL3 == Sel(cp, 16, 7)
      cL4 == Sel(cp, 23, 9)
      jp == << cL4,
               Prod(<<cL3, onem_p, r, cL1>>),
               Prod(<<cL2, onem_p, r, cL2>>),
               Prod(<<cL2, onem_p, r, cL1, onem_p, r, cL1>>),
               Prod(<<cL1, onem_p, r, cL3>>),
               Prod(<<cL1, onem_p, r, cL2, onem_p, r, cL1>>),
               Prod(<<cL1, onem_p, r, cL1, onem_p, r, cL2>>),
               Prod(<<cL1, onem_p, r, cL1, onem_p, r, cL1, onem_p, r, cL1>>),
               Prod(<<cL2, onem_p, onem_r, r, cL1>>),
               Prod(<<cL1, onem_p, onem_r, r, cL2>>),
               Prod(<<cL1, onem_p, onem_r, r, cL1, onem_p, r, cL1>>),
               Prod(<<cL1, onem_p, r, cL1, onem_p, onem_r, r, cL1>>),
               Prod(<<cL1, onem_p, onem_r, onem_r, r, cL1>>),
               cL3,
               Prod(<<cL2, onem_p, r, cL1>>),
               Prod(<<cL1, onem_p, r, cL2>>),
               Prod(<<cL1, onem_p, r, cL1, onem_p, r, cL1>>),
               Prod(<<cL1, onem_p, onem_r, r, cL1>>),
               cL2,
               Prod(<<cL1, onem_p, r, cL1>>),
               cL1 >>
      jL1 == jp[20 + 1]
      jL2 == Sel(jp, 18, 2)
      jL3 == Sel(jp, 13, 5)
      jL4 == Sel(jp, 0, 13)
      ap == << Prod(<<n, p, q>>),
               Prod(<<onem_n, n, p, q>>),
               Prod(<<n, p, onem_q, q>>),
               Prod(<<onem_n, onem_n, n, p, q>>),
               Prod(<<onem_n, n, p, onem_q, q>>),
               Prod(<<n, p, onem_q, onem_q, q>>),
               Prod(<<onem_n, onem_n, onem_n, n, p, q>>),
               Prod(<<onem_n, onem_n, n, p, onem_q, q>>),
               Prod(<<onem_n, n, p, onem_q, onem_q, q>>),
               Prod(<<n, p, onem_q, onem_q, onem_q, q>>) >>
      aL0 == ap[0 + 1]
      aL1 == Sel(ap, 1, 2)
      aL2 == Sel(ap, 3, 3)
      aL3 == Sel(ap, 6, 4)
      Sel2(x, y) == IF do_viterbi THEN ESL_MAX(x, y) ELSE Add(x, y)
  IN  [L \in 0..BruteMaxL |->
        CASE L = 0 -> MINUSINF
          [] L = 1 -> Mul(jL1, aL0)
          [] L = 2 -> Sel2(Mul(jL2, aL0), Mul(jL1, aL1))
          [] L = 3 -> Sel2(Sel2(Mul(jL3, aL0), Mul(jL2, aL1)), Mul(jL1, aL2))
          [] L = 4 -> Sel2(Sel2(Mul(jL4, aL0), Mul(jL3, aL1)),
                           Sel2(Mul(jL2, aL2), Mul(jL1, aL3)))]

\* The select_*() functions of the traceback: the state the path came from.
\* esl_vec_FArgMax returns the first index that holds the maximum.
FArgMax4(st, path) ==
  LET best == ESL_MAX(ESL_MAX(path[1], path[2]), ESL_MAX(path[3], path[4]))
      z    == CHOOSE y \in 1..4 : path[y] = best /\ \A w \in 1..(y - 1) : path[w] # best
  IN  st[z]

select_ml(g, mx, i, k) ==
  FArgMax4(<<"ML", "IL", "DL", "L">>,
           <<Plus(mx[i-1].ML[k-1], g.tsc[k-1].MM),
             Plus(mx[i-1].IL[k-1], g.tsc[k-1].IM),
             Plus(mx[i-1].DL[k-1], g.tsc[k-1].DM),
             Plus(mx[i-1].L, g.tsc[k-1].LM)>>)

select_mg(g, mx, i, k) ==
  FArgMax4(<<"MG", "IG", "DG", "G">>,
           <<Plus(mx[i-1].MG[k-1], g.tsc[k-1].MM),
             Plus(mx[i-1].IG[k-1], g.tsc[k-1].IM),
             Plus(mx[i-1].DG[k-1], g.tsc[k-1].DM),
             Plus(mx[i-1].G, g.tsc[k-1].GM)>>)

select_il(g, mx, i, k) ==
  IF ScGE(Plus(mx[i-1].ML[k], g.tsc[k].MI), Plus(mx[i-1].IL[k], g.tsc[k].II))
    THEN "ML" ELSE "IL"

select_ig(g, mx, i, k) ==
  IF ScGE(Plus(mx[i-1].MG[k], g.tsc[k].MI), Plus(mx[i-1].IG[k], g.tsc[k].II))
    THEN "MG" ELSE "IG"

select_dl(g, mx, i, k) ==
  IF ScGE(Plus(mx[i].ML[k-1], g.tsc[k-1].MD), Plus(mx[i].DL[k-1], g.tsc[k-1].DD))
    THEN "ML" ELSE "DL"

select_dg(g, mx, i, k) ==
  IF ScGE(Plus(mx[i].MG[k-1], g.tsc[k-1].MD), Plus(mx[i].DG[k-1], g.tsc[k-1].DD))
    THEN "MG" ELSE "DG"

\* select_e(): <<smax, kmax>>; smax = -1 is held as "BOGUS".
select_e(g, mx, i) ==
  LET M == g.M
      scan[k \in 0..M] ==
        IF k = 0 THEN [max |-> MINUSINF, smax |-> "BOGUS", kmax |-> -1]
        ELSE IF ScGT(mx[i].ML[k], scan[k-1].max)
               THEN [max |-> mx[i].ML[k], smax |-> "ML", kmax |-> k]
               ELSE scan[k-1]
      r1 == scan[M]
      r2 == IF ScGT(mx[i].MG[M], r1.max)
              THEN [max |-> mx[i].MG[M], smax |-> "MG", kmax |-> M] ELSE r1
      r3 == IF ScGT(mx[i].DG[M], r2.max)
              THEN [max |-> mx[i].DG[M], smax |-> "DG", kmax |-> M] ELSE r2
  IN  <<r3.smax, r3.kmax>>

select_n_mut(i) == "S"

select_n(i) == IF i = 0 THEN "S" ELSE "N"

\* Row i-1 of the matrix; for i = 0 the read is outside the matrix and
\* yields whatever the memory before row 0 holds (junk).
RowBefore(mx, i, junk) == IF i >= 1 THEN mx[i-1] ELSE junk

select_j(g, mx, i, junk) ==
  IF ScGT(Plus(RowBefore(mx, i, junk).J, g.xsc.J.LOOP), Plus(mx[i].E, g.xsc.E.LOOP))
    THEN "J" ELSE "E"

select_b(g, mx, i) ==
  IF ScGT(Plus(mx[i].N, g.xsc.N.MOVE), Plus(mx[i].J, g.xsc.J.MOVE))
    THEN "N" ELSE "J"

select_c_mut(g, mx, i, junk) == "C"

select_c(g, mx, i, junk) ==
  IF ScGT(Plus(RowBefore(mx, i, junk).C, g.xsc.C.LOOP), Plus(mx[i].E, g.xsc.E.MOVE))
    THEN "C" ELSE "E"

\* while (k) { p7_trace_Append(tr, p7T_DG, k, i); k--; }
UnfoldWing_mut(t, k, i) == t

UnfoldWing_top(t, k, i) ==
  IF k = 0 THEN t ELSE p7_trace_Append(t, "DG", k, i)

RECURSIVE UnfoldWing(_, _, _)
UnfoldWing(t, k, i) ==
  IF k = 0 THEN t ELSE UnfoldWing(p7_trace_Append(t, "DG", k, i), k - 1, i)

RefTraceStates ==
  {"ML", "MG", "IL", "IG", "DL", "DG", "E", "N", "J", "B", "L", "G", "C"}

\* The while loop of reference_viterbi_traceback(), from the state it is
\* in to its return: the trace it leaves and the status it returns.  A
\* step that would move to a row before row 0 leaves the matrix; what the
\* routine does from there on is not defined.
RECURSIVE RefTraceLoop(_, _, _, _, _, _, _)
RefTraceLoop(g, mx, t, sprv, i, k, junk) ==
  IF sprv = "S" THEN [tr |-> p7_trace_Reverse(t), status |-> "eslOK"]
  ELSE IF sprv \notin RefTraceStates
    THEN [tr |-> t, status |-> "eslEINCONCEIVABLE"]
  ELSE IF i < 0 \/ (i = 0 /\ sprv \in {"ML", "MG", "IL", "IG"})
    THEN [tr |-> t, status |-> "undefined"]
  ELSE
    LET sel == CASE sprv = "ML" -> <<select_ml(g, mx, i, k), k - 1, i - 1>>
                 [] sprv = "MG" -> <<select_mg(g, mx, i, k), k - 1, i - 1>>
                 [] sprv = "IL" -> <<select_il(g, mx, i, k), k, i - 1>>
                 [] sprv = "IG" -> <<select_ig(g, mx, i, k), k, i - 1>>
                 [] sprv = "DL" -> <<select_dl(g, mx, i, k), k - 1, i>>
                 [] sprv = "DG" -> <<select_dg(g, mx, i, k), k - 1, i>>
                 [] sprv = "E"  -> <<select_e(g, mx, i)[1], select_e(g, mx, i)[2], i>>
                 [] sprv = "N"  -> <<select_n(i), k, i>>
                 [] sprv = "J"  -> <<select_j(g, mx, i, junk), k, i>>
                 [] sprv = "B"  -> <<select_b(g, mx, i), k, i>>
                 [] sprv = "L"  -> <<"B", k, i>>
                 [] sprv = "G"  -> <<"B", k, i>>
                 [] sprv = "C"  -> <<select_c(g, mx, i, junk), k, i>>
        scur == sel[1]
        i1   == sel[3]
        t1   == IF scur = "G" THEN UnfoldWing(t, sel[2], i1) ELSE t
        k1   == IF scur = "G" THEN 0 ELSE sel[2]
        t2   == p7_trace_Append(t1, scur, k1, i1)
        i2   == IF scur \in {"N", "J", "C"} /\ scur = sprv THEN i1 - 1 ELSE i1
    IN  RefTraceLoop(g, mx, t2, scur, i2, k1, junk)

\* reference_viterbi_traceback(gm, rmx, tr)
reference_viterbi_traceback(g, mx, L, junk) ==
  LET t0 == p7_trace_Append(p7_trace_Append(<<>>, "T", 0, L), "C", 0, L)
  IN  RefTraceLoop(g, mx, t0, "C", L, 0, junk)

\* Row L of p7_ReferenceBackward.  msc[k] is the match score of x_L in
\* node k.  xG and xL are the locals that carry G and L to row L-1.
RefBackwardRowL(g, msc) ==
  LET M  == g.M
      t  == g.tsc
      xC == g.xsc.C.MOVE
      xE == Plus(xC, g.xsc.E.MOVE)
      dg[k \in 1..M] == IF k = M THEN xE ELSE Plus(dg[k+1], t[k].DD)
      dl[k \in 1..M] == IF k = M THEN xE
                        ELSE p7_FLogsum(xE, Plus(dl[k+1], t[k].DD))
      mg[k \in 1..M] == IF k = M THEN xE ELSE Plus(dg[k+1], t[k].MD)
      ml[k \in 1..M] == IF k = M THEN xE
                        ELSE p7_FLogsum(xE, Plus(dl[k+1], t[k].MD))
      xG[k \in 1..M] == IF k = M THEN Plus3(xE, msc[M], t[M-1].GM)
                        ELSE p7_FLogsum(xG[k+1], Plus3(mg[k], msc[k], t[k-1].GM))
      xL[k \in 1..M] == IF k = M THEN Plus3(xE, msc[M], t[M-1].LM)
                        ELSE p7_FLogsum(xL[k+1], Plus3(ml[k], msc[k], t[k-1].LM))
      cell(f) == [k \in 0..M |-> IF k = 0 THEN MINUSINF ELSE f[k]]
      inf == [k \in 0..M |-> MINUSINF]
  IN  [ML |-> cell(ml), MG |-> cell(mg), IL |-> inf, IG |-> inf,
       DL |-> cell(dl), DG |-> cell(dg),
       E |-> xE, N |-> MINUSINF, J |-> MINUSINF, B |-> MINUSINF,
       L |-> MINUSINF, G |-> MINUSINF, C |-> xC,
       xG |-> xG[1], xL |-> xL[1]]

\* The specials of row i < L of p7_ReferenceBackward from row i+1 (nx).
RefBackwardSpecials(g, nx) ==
  LET xC == Plus(nx.C, g.xsc.C.LOOP)
      xB == p7_FLogsum(Plus(nx.xG, g.xsc.B.G), Plus(nx.xL, g.xsc.B.L))
      xJ == p7_FLogsum(Plus(nx.J, g.xsc.J.LOOP), Plus(xB, g.xsc.J.MOVE))
      xN == p7_FLogsum(Plus(nx.N, g.xsc.N.LOOP), Plus(xB, g.xsc.N.MOVE))
      xE == p7_FLogsum(Plus(xC, g.xsc.E.MOVE), Plus(xJ, g.xsc.E.LOOP))
  IN  [C |-> xC, G |-> nx.xG, L |-> nx.xL, B |-> xB, J |-> xJ, N |-> xN,
       E |-> xE]

\* Row i, 1 <= i < L, of p7_ReferenceBackward from row i+1 (nx); msc and
\* msn are the match scores of x_i and x_i+1.  Insert scores are taken as 0.
RefBackwardRow(g, msc, msn, nx) ==
  LET M  == g.M
      t  == g.tsc
      sp == RefBackwardSpecials(g, nx)
      xE == sp.E
      mgn(k) == Plus(msn[k], nx.MG[k])
      mln(k) == Plus(msn[k], nx.ML[k])
      dg[k \in 1..M] ==
        IF k = M THEN xE
        ELSE p7_FLogsum(Plus(mgn(k+1), t[k].DM), Plus(dg[k+1], t[k].DD))
      dl[k \in 1..M] ==
        IF k = M THEN xE
        ELSE p7_FLogsum(p7_FLogsum(Plus(mln(k+1), t[k].DM),
                                   Plus(dl[k+1], t[k].DD)), xE)
      mg[k \in 1..M] ==
        IF k = M THEN xE
        ELSE p7_FLogsum(p7_FLogsum(Plus(mgn(k+1), t[k].MM),
                                   Plus(nx.IG[k], t[k].MI)),
                        Plus(dg[k+1], t[k].MD))
      ml[k \in 1..M] ==
        IF k = M THEN xE
        ELSE p7_FLogsum(p7_FLogsum(Plus(mln(k+1), t[k].MM),
                                   Plus(nx.IL[k], t[k].MI)),
                        p7_FLogsum(Plus(dl[k+1], t[k].MD), xE))
      ig == [k \in 0..M |->
              IF k = 0 \/ k = M THEN MINUSINF
              ELSE p7_FLogsum(Plus(mgn(k+1), t[k].IM), Plus(nx.IG[k], t[k].II))]
      il == [k \in 0..M |->
              IF k = 0 \/ k = M THEN MINUSINF
              ELSE p7_FLogsum(Plus(mln(k+1), t[k].IM), Plus(nx.IL[k], t[k].II))]
      xG[k \in 1..M] == IF k = M THEN Plus3(xE, msc[M], t[M-1].GM)
                        ELSE p7_FLogsum(xG[k+1], Plus3(mg[k], msc[k], t[k-1].GM))
      xL[k \in 1..M] == IF k = M THEN Plus3(xE, msc[M], t[M-1].LM)
                        ELSE p7_FLogsum(xL[k+1], Plus3(ml[k], msc[k], t[k-1].LM))
      cell(f) == [k \in 0..M |-> IF k = 0 THEN MINUSINF ELSE f[k]]
  IN  [ML |-> cell(ml), MG |-> cell(mg), IL |-> il, IG |-> ig,
       DL |-> cell(dl), DG |-> cell(dg),
       E |-> sp.E, N |-> sp.N, J |-> sp.J, B |-> sp.B,
       L |-> sp.L, G |-> sp.G, C |-> sp.C,
       xG |-> xG[1], xL |-> xL[1]]

\* Row 0 of p7_ReferenceBackward from row 1 (nx): the specials, and the
\* main cells set to -inf.
RefBackwardRow0(g, nx) ==
  LET sp  == RefBackwardSpecials(g, nx)
      inf == [k \in 0..g.M |-> MINUSINF]
  IN  [ML |-> inf, MG |-> inf, IL |-> inf, IG |-> inf, DL |-> inf, DG |-> inf,
       E |-> sp.E, N |-> sp.N, J |-> sp.J, B |-> sp.B,
       L |-> sp.L, G |-> sp.G, C |-> sp.C,
       xG |-> nx.xG, xL |-> nx.xL]

\* What a read outside the sequence and the matrix can yield: the match
\* score found through gm->rsc[dsq[0]], and the C, J, N of a row that is not
\* part of the problem.
JunkValues == {MINUSINF, SC0}

Junk == [rsc : JunkValues, C : JunkValues, J : JunkValues, N : JunkValues]

NoJunk == [rsc |-> MINUSINF, C |-> MINUSINF, J |-> MINUSINF, N |-> MINUSINF]

\* The matrix p7_ReferenceBackward leaves in rmx: rows 0..L.  With L = 0
\* row L is initialized with the scores found through dsq[0], which is the
\* sentinel, and row 0 is then computed from dp[1], a row the matrix need
\* not have.
RefBackwardMx(sq, g, junk) ==
  LET L == Len(sq)
      M == g.M
      msc(i) == IF i >= 1 THEN [k \in 1..M |-> g.rsc[sq[i]][k].MSC]
                ELSE [k \in 1..M |-> junk.rsc]
      rows[i \in 1..L] ==
        IF i = L THEN RefBackwardRowL(g, msc(L))
        ELSE RefBackwardRow(g, msc(i), msc(i + 1), rows[i + 1])
      row1 == IF L >= 1 THEN rows[1]
              ELSE LET r == RefBackwardRowL(g, msc(0))
                   IN  [C |-> junk.C, J |-> junk.J, N |-> junk.N,
                        xG |-> r.xG, xL |-> r.xL]
  IN  [i \in 0..L |-> IF i = 0 THEN RefBackwardRow0(g, row1) ELSE rows[i]]

\* *opt_sc = dpc[p7R_N] on row 0
RefBackwardScore(mx) == mx[0].N

\* The score of the transition from state st1 of node k1 to state st2 of
\* node k2 in a trace; a transition the profile does not have scores -inf.
\* A glocal entry is scored as the trace holds it, unfolded: G->MG1 or
\* G->DG1, D->D down the wing, and D->M into the first match state.
TraceT(g, st1, k1, st2, k2) ==
  LET t  == g.tsc
      inner == k1 >= 1 /\ k1 < g.M
  IN
  CASE st1 = "S" /\ st2 = "N" -> SC0
    [] st1 = "N" /\ st2 = "N" -> g.xsc.N.LOOP
    [] st1 = "N" /\ st2 = "B" -> g.xsc.N.MOVE
    [] st1 = "B" /\ st2 = "L" -> g.xsc.B.L
    [] st1 = "B" /\ st2 = "G" -> g.xsc.B.G
    [] st1 = "L" /\ st2 = "ML" /\ k2 >= 1 -> t[k2 - 1].LM
    [] st1 = "G" /\ st2 = "MG" /\ k2 = 1 -> g.xsc.G.M1
    [] st1 = "G" /\ st2 = "DG" /\ k2 = 1 -> g.xsc.G.D1
    [] st1 \in {"ML", "MG"} /\ st2 = st1 /\ inner /\ k2 = k1 + 1 -> t[k1].MM
    [] st1 = "ML" /\ st2 = "IL" /\ inner /\ k2 = k1 -> t[k1].MI
    [] st1 = "MG" /\ st2 = "IG" /\ inner /\ k2 = k1 -> t[k1].MI
    [] st1 = "ML" /\ st2 = "DL" /\ inner /\ k2 = k1 + 1 -> t[k1].MD
    [] st1 = "MG" /\ st2 = "DG" /\ inner /\ k2 = k1 + 1 -> t[k1].MD
    [] st1 \in {"IL", "IG"} /\ st2 = st1 /\ inner /\ k2 = k1 -> t[k1].II
    [] st1 = "IL" /\ st2 = "ML" /\ inner /\ k2 = k1 + 1 -> t[k1].IM
    [] st1 = "IG" /\ st2 = "MG" /\ inner /\ k2 = k1 + 1 -> t[k1].IM
    [] st1 \in {"DL", "DG"} /\ st2 = st1 /\ inner /\ k2 = k1 + 1 -> t[k1].DD
    [] st1 = "DL" /\ st2 = "ML" /\ inner /\ k2 = k1 + 1 -> t[k1].DM
    [] st1 = "DG" /\ st2 = "MG" /\ inner /\ k2 = k1 + 1 -> t[k1].DM
    [] st1 \in {"ML", "DL"} /\ st2 = "E" -> SC0
    [] st1 \in {"MG", "DG"} /\ st2 = "E" /\ k1 = g.M -> SC0
    [] st1 = "E" /\ st2 = "C" -> g.xsc.E.MOVE
    [] st1 = "E" /\ st2 = "J" -> g.xsc.E.LOOP
    [] st1 = "J" /\ st2 = "J" -> g.xsc.J.LOOP
    [] st1 = "J" /\ st2 = "B" -> g.xsc.J.MOVE
    [] st1 = "C" /\ st2 = "C" -> g.xsc.C.LOOP
    [] st1 = "C" /\ st2 = "T" -> g.xsc.C.MOVE
    [] OTHER -> MINUSINF

\* The emission score of element z of a trace.
TraceEmit(g, sq, e) ==
  IF e.st \in {"ML", "MG"} THEN g.rsc[sq[e.i]][e.k].MSC
  ELSE IF e.st \in {"IL", "IG"} THEN g.rsc[sq[e.i]][e.k].ISC
  ELSE SC0

\* p7_trace_Score(): the sum of the emission and transition scores along
\* the path.
p7_trace_Score(g, sq, t) ==
  LET sc[z \in 0..(Len(t) - 1)] ==
        IF z = 0 THEN SC0
        ELSE Plus3(sc[z - 1], TraceEmit(g, sq, t[z]),
                   TraceT(g, t[z].st, t[z].k, t[z + 1].st, t[z + 1].k))
  IN  sc[Len(t) - 1]

\* The residues x_1..x_L that the emitting states of a trace account for.
TraceCovers(t, L) ==
  LET emit == {z \in 1..Len(t) :
                 \/ t[z].st \in {"ML", "MG", "IL", "IG"}
                 \/ z > 1 /\ t[z].st \in {"N", "J", "C"} /\ t[z - 1].st = t[z].st}
  IN  Cardinality(emit) = L

\* utest_brute(): a brute model, a target, and the three fills in turn.
InitDP ==
  /\ uprm \in BruteParams
  /\ gm = BruteProfile(uprm)
  /\ dsq \in DSeqs
  /\ tr = <<>>
  /\ vit = <<>>
  /\ fwd = <<>>
  /\ bck = <<>>
  /\ rs = [pc |-> "start", vsc |-> MINUSINF, fsc |-> MINUSINF,
           bsc |-> MINUSINF, vstatus |-> "none", fstatus |-> "none",
           bacc |-> [rd |-> {}, wr |-> {}, x |-> {}]]
  /\ gx = Idle /\ gt = Idle
  /\ IdleCP
  /\ IdleASC
  /\ IdleEM
  /\ IdleAux

\* The junk a call can meet: only a target of length 0 makes the routines
\* read outside the sequence and the matrix.
JunkFor(sq) == IF Len(sq) = 0 THEN Junk ELSE {NoJunk}

\* p7_ReferenceViterbi(dsq, L, gm, vit, vtr, &vsc)
ReferenceViterbi ==
  /\ rs.pc = "start"
  /\ \E junk \in JunkFor(dsq) :
       LET mx == RefViterbiMx(dsq, gm)
           r  == reference_viterbi_traceback(gm, mx, Len(dsq), junk)
       IN  /\ vit' = mx
           /\ tr' = r.tr
           /\ rs' = [rs EXCEPT !.pc = "vit", !.vsc = RefViterbiScore(mx, dsq, gm),
                               !.vstatus = r.status]
  /\ UNCHANGED <<uprm, gm, dsq, fwd, bck, gx, gt, cpvars, ascvars, emvars, auxvars>>

\* p7_ReferenceForward(dsq, L, gm, fwd, &fsc)
ReferenceForward ==
  /\ rs.pc = "vit"
  /\ fwd' = RefForwardMx(dsq, gm)
  /\ rs' = [rs EXCEPT !.pc = "fwd", !.fsc = RefForwardScore(fwd', dsq, gm),
                      !.fstatus = "eslOK"]
  /\ UNCHANGED <<uprm, gm, dsq, tr, vit, bck, gx, gt, cpvars, ascvars, emvars, auxvars>>

\* The rows of rmx that p7_ReferenceBackward reads (rd) and writes (wr) and
\* the positions of dsq it reads (x): row L from dsq[L]; rows i = L-1..1
\* from row i+1 and dsq[i], dsq[i+1]; row 0 from row 1.
RefBackwardAccess(L) ==
  [rd |-> {i + 1 : i \in 1..(L - 1)} \cup {1},
   wr |-> {L} \cup (1..(L - 1)) \cup {0},
   x  |-> {L} \cup UNION {{i, i + 1} : i \in 1..(L - 1)}]

\* p7_ReferenceBackward(dsq, L, gm, bck, &bsc)
ReferenceBackward ==
  /\ rs.pc = "fwd"
  /\ \E junk \in JunkFor(dsq) :
       /\ bck' = RefBackwardMx(dsq, gm, junk)
       /\ rs' = [rs EXCEPT !.pc = "bck", !.bsc = RefBackwardScore(bck'),
                           !.bacc = RefBackwardAccess(Len(dsq))]
  /\ UNCHANGED <<uprm, gm, dsq, tr, vit, fwd, gx, gt, cpvars, ascvars, emvars, auxvars>>

NextDP == ReferenceViterbi \/ ReferenceForward \/ ReferenceBackward

SpecDP == InitDP /\ [][NextDP]_vars

PolyA(sq) == \A i \in 1..Len(sq) : sq[i] = 0

\* C1: for the brute-test profile (M = 3) and the all-A targets of length
\* 1 to 4, the score p7_ReferenceViterbi returns equals the maximum over
\* the enumeration of all state paths that score_brute() computes (equal
\* in exact arithmetic, hence within 1e-5).
C1_claim ==
  (rs.pc # "start" /\ PolyA(dsq) /\ Len(dsq) \in 1..BruteMaxL)
     => rs.vsc = score_brute(uprm, TRUE)[Len(dsq)]

C1_witness ==
  /\ rs.pc = "vit"
  /\ dsq = <<0, 0, 0, 0>>
  /\ rs.vsc # MINUSINF
  /\ \E z \in 1..Len(tr) : tr[z].st \in {"IL", "IG"}

\* C2: the trace that p7_ReferenceViterbi returns with status eslOK scores,
\* by p7_trace_Score, exactly the Viterbi score returned with it.
C2_claim ==
  (rs.pc # "start" /\ rs.vstatus = "eslOK")
     => p7_trace_Score(gm, dsq, tr) = rs.vsc

C2_witness ==
  /\ rs.pc = "vit"
  /\ rs.vstatus = "eslOK"
  /\ rs.vsc # MINUSINF
  /\ \E z \in 1..(Len(tr) - 2) :
        tr[z].st = "G" /\ tr[z + 1].st = "DG" /\ tr[z + 2].st = "DG"

\* C3: for every profile and target, the Viterbi score is less than or
\* equal to the Forward score.
C3_claim == rs.pc \in {"fwd", "bck"} => ScGE(rs.fsc, rs.vsc)

C3_witness ==
  /\ rs.pc = "fwd"
  /\ Len(dsq) = BruteMaxL
  /\ rs.vsc # MINUSINF
  /\ ScGT(rs.fsc, rs.vsc)

\* C4: for every profile and target, the empty target included, the
\* Backward score read from N on row 0 equals the Forward score
\* C(L) + xsc[C][MOVE].
C4_claim == rs.pc = "bck" => rs.bsc = rs.fsc

(***************************************************************************)
(* Part 5.  The anchor-set-constrained (ASC) Forward fill,                 *)
(* dp_reference/reference_asc_fwdback.c.  A cell holds its score and, with *)
(* it, the state paths that the score sums: each path is kept as the set   *)
(* of match cells <<i, k>> it passes through.                              *)
(***************************************************************************)

\* Longest target of the ASC fill.
MaxAscL == 3

\* -eslINFINITY: no path.
VInf == [sc |-> MINUSINF, ps |-> {}]

\* Score 0: the empty path.
VZero == [sc |-> SC0, ps |-> {{}}]

\* A cell that the call did not write: a value left by an earlier use of
\* the matrix, standing for a path through the cell <<0, 0>>.
VStale == [sc |-> SC0, ps |-> {{<<0, 0>>}}]

\* v + t for a transition score t: the paths of v go on unless t is -inf.
VAdd(v, t) ==
  [sc |-> Plus(v.sc, t), ps |-> IF t = MINUSINF THEN {} ELSE v.ps]

\* p7_FLogsum(v, w): the paths of both.
VSum(v, w) == [sc |-> p7_FLogsum(v.sc, w.sc), ps |-> v.ps \cup w.ps]

\* *rsc + v for the match emission score of cell (i, k): the paths of v
\* now pass through the match cell.
VEmit(v, i, k, msc) ==
  [sc |-> Plus(v.sc, msc),
   ps |-> IF msc = MINUSINF THEN {} ELSE {pa \cup {<<i, k>>} : pa \in v.ps}]

\* gm->xsc[p7P_N][p7P_LOOP] * i
RECURSIVE ScTimes(_, _)
ScTimes(t, i) == IF i = 0 THEN SC0 ELSE Plus(t, ScTimes(t, i - 1))

\* gm->tsc + k * p7P_NTRANS for k = 0..M; the transitions of node M are
\* all -inf.
TscAt(g, k) ==
  IF k < g.M THEN g.tsc[k]
  ELSE [MM |-> MINUSINF, IM |-> MINUSINF, DM |-> MINUSINF, MD |-> MINUSINF,
        MI |-> MINUSINF, II |-> MINUSINF, DD |-> MINUSINF,
        LM |-> MINUSINF, GM |-> MINUSINF]

\* One supercell of a row: the six main states of column k.
Cell(row, k) ==
  [ML |-> row.ML[k], MG |-> row.MG[k], IL |-> row.IL[k],
   IG |-> row.IG[k], DL |-> row.DL[k], DG |-> row.DG[k]]

InfCell ==
  [ML |-> VInf, MG |-> VInf, IL |-> VInf, IG |-> VInf, DL |-> VInf, DG |-> VInf]

\* A row after the cells of columns k1..k2 are stored from c[k].
SetCells(row, k1, k2, c) ==
  LET put(old, st) ==
        [k \in DOMAIN old |-> IF k >= k1 /\ k <= k2 THEN c[k][st] ELSE old[k]]
  IN  [row EXCEPT !.ML = put(@, "ML"), !.MG = put(@, "MG"),
                  !.IL = put(@, "IL"), !.IG = put(@, "IG"),
                  !.DL = put(@, "DL"), !.DG = put(@, "DG")]

\* A row after its specials are stored from x.
SetSpecials(row, x) ==
  [row EXCEPT !.E = x.E, !.N = x.N, !.J = x.J, !.B = x.B,
              !.L = x.L, !.G = x.G, !.C = x.C]

\* A row of a matrix as the caller hands it over: every value is v.
StaleRow(M, v) ==
  LET all == [k \in 0..M |-> v]
  IN  [ML |-> all, MG |-> all, IL |-> all, IG |-> all, DL |-> all, DG |-> all,
       E |-> v, N |-> v, J |-> v, B |-> v, L |-> v, G |-> v, C |-> v]

\* A P7_REFMX the caller provides, holding L+1 rows.
StaleMx(M, L, v) ==
  [type |-> "p7R_UNSET", M |-> 0, L |-> 0, dp |-> [i \in 0..L |-> StaleRow(M, v)]]

\* The specials of a row i < anch[0].i, before the first domain.
ASCInitRow(g, i) ==
  LET n == VAdd(VZero, ScTimes(g.xsc.N.LOOP, i))
      b == VAdd(n, g.xsc.N.MOVE)
  IN  [E |-> VInf, N |-> n, J |-> VInf, B |-> b,
       L |-> VAdd(b, g.xsc.B.L), G |-> VAdd(b, g.xsc.B.G), C |-> VInf]

\* mlv, mgv of cell (i, k) by the UP calculation, which lets paths enter
\* from L and G of the row before; cp is the cell (i-1, k-1).
ASCUpMatch(g, x, i, k, cp, xp) ==
  LET t == TscAt(g, k - 1)
      r == g.rsc[x][k].MSC
  IN  [ML |-> VEmit(VSum(VSum(VAdd(cp.ML, t.MM), VAdd(cp.IL, t.IM)),
                         VSum(VAdd(cp.DL, t.DM), VAdd(xp.L, t.LM))), i, k, r),
       MG |-> VEmit(VSum(VSum(VAdd(cp.MG, t.MM), VAdd(cp.IG, t.IM)),
                         VSum(VAdd(cp.DG, t.DM), VAdd(xp.G, t.GM))), i, k, r)]

\* mlv, mgv of cell (i, k) by the DOWN calculation: no entry.
ASCDownMatch(g, x, i, k, cp) ==
  LET t == TscAt(g, k - 1)
      r == g.rsc[x][k].MSC
  IN  [ML |-> VEmit(VSum(VSum(VAdd(cp.ML, t.MM), VAdd(cp.IL, t.IM)),
                         VAdd(cp.DL, t.DM)), i, k, r),
       MG |-> VEmit(VSum(VSum(VAdd(cp.MG, t.MM), VAdd(cp.IG, t.IM)),
                         VAdd(cp.DG, t.DM)), i, k, r)]

\* IL, IG of cell (i, k); cq is the cell (i-1, k).
ASCInsert(g, x, k, cq) ==
  LET t == TscAt(g, k)
      r == g.rsc[x][k].ISC
  IN  [IL |-> VAdd(VSum(VAdd(cq.ML, t.MI), VAdd(cq.IL, t.II)), r),
       IG |-> VAdd(VSum(VAdd(cq.MG, t.MI), VAdd(cq.IG, t.II)), r)]

\* dlv, dgv precalculated for column k+1 from the cell c of column k.
ASCDelete(g, k, c) ==
  LET t == TscAt(g, k)
  IN  [DL |-> VSum(VAdd(c.ML, t.MD), VAdd(c.DL, t.DD)),
       DG |-> VSum(VAdd(c.MG, t.MD), VAdd(c.DG, t.DD))]

\* The six values stored in one supercell.
MkCell(mt, ins, del) ==
  [ML |-> mt.ML, MG |-> mt.MG, IL |-> ins.IL, IG |-> ins.IG,
   DL |-> del.DL, DG |-> del.DG]

\* Row i of an UP sector: the cells of columns 0..anch[d].k-1.
ASCUpRow(g, x, i, kd, pr, xp) ==
  LET c[k \in 0..(kd - 1)] ==
        IF k = 0 THEN InfCell
        ELSE MkCell(ASCUpMatch(g, x, i, k, Cell(pr, k - 1), xp),
                    ASCInsert(g, x, k, Cell(pr, k)),
                    ASCDelete(g, k - 1, c[k - 1]))
  IN  [k \in 0..(kd - 1) |-> c[k]]

\* The UP matrix after row i of the sector is stored; m1 holds row i-1.
ASCUpStore(g, sq, i, kd, m1, md) ==
  [m1 EXCEPT ![i] = SetCells(@, 0, kd - 1,
                             ASCUpRow(g, sq[i], i, kd, m1[i - 1], md[i - 1]))]

\* Part 1 of domain d: the row above the UP sector is set to -inf in
\* columns 0..anch[d].k-1, then the rows up to anch[d].i-1 are filled.
\* iu is the row that dpp is left on.
ASCUpSector(g, sq, a, d, mu, md) ==
  LET iprev == IF d = 1 THEN 0 ELSE a[d - 1][1]
      kd    == a[d][2]
      ilast == Max2(iprev, a[d][1] - 1)
      up[i \in iprev..ilast] ==
        IF i = iprev
        THEN [mu EXCEPT ![i] = SetCells(@, 0, kd - 1, [k \in 0..(kd - 1) |-> InfCell])]
        ELSE ASCUpStore(g, sq, i, kd, up[i - 1], md)
  IN  [mu |-> up[ilast], iu |-> ilast]

\* xE of the top row after column k: only deletes hang off the anchor
\* cell, and the glocal exit is at k = M.
ASCTopExit(g, kd, k, xe, mt, ck) ==
  IF k = kd THEN (IF kd = g.M THEN VSum(mt.ML, mt.MG) ELSE mt.ML)
  ELSE IF k = g.M THEN VSum(xe, VSum(ck.DL, ck.DG))
  ELSE VSum(xe, ck.DL)

\* The cell of column k > anch[d].k on the top row, from the cell q of
\* column k-1: all but the deletes are -inf.
ASCTopDelete(g, kd, k, q) ==
  LET t == TscAt(g, k - 1)
  IN  [InfCell EXCEPT
         !.DL = IF k = kd + 1 THEN VAdd(q.ML, t.MD) ELSE VAdd(q.DL, t.DD),
         !.DG = IF k = kd + 1 THEN VAdd(q.MG, t.MD) ELSE VAdd(q.DG, t.DD)]

\* The top row of a DOWN sector from its anchor cell mt: the deletes that
\* hang off it, and xE.
ASCTopRow(g, kd, mt) ==
  LET c[k \in (kd - 1)..g.M] ==
        IF k = kd - 1 THEN InfCell
        ELSE IF k = kd THEN [InfCell EXCEPT !.ML = mt.ML, !.MG = mt.MG]
        ELSE ASCTopDelete(g, kd, k, c[k - 1])
      xe[k \in (kd - 1)..g.M] ==
        IF k = kd - 1 THEN VInf ELSE ASCTopExit(g, kd, k, xe[k - 1], mt, c[k])
  IN  [c |-> [k \in (kd - 1)..g.M |-> c[k]], xE |-> xe[g.M]]

\* The top row of a DOWN sector: the anchor cell by an UP calculation from
\* dpp, then the rest of the row.
ASCDownTop(g, x, i, kd, dpp, xp) ==
  ASCTopRow(g, kd, ASCUpMatch(g, x, i, kd, dpp, xp))

\* xE of a later DOWN row after column k, from the cell ck.
ASCDownExit(g, k, xe, ck) ==
  IF k = g.M
  THEN VSum(xe, VSum(VSum(ck.ML, ck.DL), VSum(ck.MG, ck.DG)))
  ELSE VSum(xe, VSum(ck.ML, ck.DL))

\* A later row i of a DOWN sector: columns anch[d].k-1..M, and xE.
ASCDownRow(g, x, i, kd, pr) ==
  LET c[k \in (kd - 1)..g.M] ==
        IF k = kd - 1 THEN InfCell
        ELSE MkCell(ASCDownMatch(g, x, i, k, Cell(pr, k - 1)),
                    ASCInsert(g, x, k, Cell(pr, k)),
                    ASCDelete(g, k - 1, c[k - 1]))
      xe[k \in (kd - 1)..g.M] ==
        IF k = kd - 1 THEN VInf ELSE ASCDownExit(g, k, xe[k - 1], c[k])
  IN  [c |-> [k \in (kd - 1)..g.M |-> c[k]], xE |-> xe[g.M]]

\* The specials of a DOWN row from its xE: on the top row of the sector J
\* and C take no loop from the row before; xp is the row before.
ASCSpecials_mut(g, last, top, xE, xp) ==
  LET j == IF last THEN VInf
           ELSE VSum(VAdd(xp.J, g.xsc.J.LOOP), VAdd(xE, g.xsc.E.LOOP))
      b == VAdd(j, g.xsc.J.MOVE)
      c == IF ~last THEN VInf
           ELSE IF top THEN VAdd(xE, g.xsc.E.LOOP)
           ELSE VSum(VAdd(xp.C, g.xsc.C.LOOP), VAdd(xE, g.xsc.E.LOOP))
  IN  [E |-> xE, N |-> VInf, J |-> j, B |-> b,
       L |-> VAdd(b, g.xsc.B.L), G |-> VAdd(b, g.xsc.B.G), C |-> c]

ASCSpecials(g, last, top, xE, xp) ==
  LET j == IF last THEN VInf
           ELSE IF top THEN VAdd(xE, g.xsc.E.LOOP)
           ELSE VSum(VAdd(xp.J, g.xsc.J.LOOP), VAdd(xE, g.xsc.E.LOOP))
      b == VAdd(j, g.xsc.J.MOVE)
      c == IF ~last THEN VInf
           ELSE IF top THEN VAdd(xE, g.xsc.E.LOOP)
           ELSE VSum(VAdd(xp.C, g.xsc.C.LOOP), VAdd(xE, g.xsc.E.LOOP))
  IN  [E |-> xE, N |-> VInf, J |-> j, B |-> b,
       L |-> VAdd(b, g.xsc.B.L), G |-> VAdd(b, g.xsc.B.G), C |-> c]

\* The DOWN matrix after the cells r.c and the specials of row i are
\* stored; m1 holds row i-1.
ASCDownStore(g, last, top, i, kd, m1, r) ==
  [m1 EXCEPT ![i] = SetSpecials(SetCells(@, kd - 1, g.M, r.c),
                                ASCSpecials(g, last, top, r.xE, m1[i - 1]))]

\* The DOWN matrix after a later row i of the sector.
ASCDownNext(g, sq, last, i, kd, m1) ==
  ASCDownStore(g, last, FALSE, i, kd, m1, ASCDownRow(g, sq[i], i, kd, m1[i - 1]))

\* Part 2 of domain d: rows anch[d].i..iend-1 of the DOWN matrix and their
\* specials; u is what Part 1 left.  xc is the row whose specials were
\* stored last.
ASCDownSector(g, sq, a, d, u, md) ==
  LET id    == a[d][1]
      kd    == a[d][2]
      last  == d = Len(a)
      iend  == IF d < Len(a) THEN a[d + 1][1] ELSE Len(sq) + 1
      ilast == Max2(id, iend - 1)
      dn[i \in id..ilast] ==
        IF i = id
        THEN ASCDownStore(g, last, TRUE, i, kd, md,
                          ASCDownTop(g, sq[i], i, kd,
                                     Cell(u.mu[u.iu], kd - 1), md[i - 1]))
        ELSE ASCDownNext(g, sq, last, i, kd, dn[i - 1])
  IN  [mu |-> u.mu, md |-> dn[ilast], xc |-> ilast]

\* One turn of for (d = 0; d < D; d++): the UP sector, then the DOWN
\* sector, of domain d.
ASCDomain(g, sq, a, d, st) ==
  ASCDownSector(g, sq, a, d, ASCUpSector(g, sq, a, d, st.mu, st.md), st.md)

RECURSIVE ASCDomains(_, _, _, _, _)
ASCDomains(g, sq, a, d, st) ==
  IF d > Len(a) THEN st
  ELSE ASCDomains(g, sq, a, d + 1, ASCDomain(g, sq, a, d, st))

\* The matrices before the first domain: the specials of rows
\* 0..anch[0].i-1 (row 0 alone if D = 0) are set.
ASCInit(g, sq, a, mu, md) ==
  LET iend == IF Len(a) = 0 THEN 1 ELSE a[1][1]
  IN  [mu |-> mu,
       md |-> [i \in 0..Len(sq) |->
                 IF i < iend THEN SetSpecials(md[i], ASCInitRow(g, i)) ELSE md[i]],
       xc |-> iend - 1]

\* The score: C of the row xc was left on, + C->T.
ASCScore(g, st) ==
  [mu |-> st.mu, md |-> st.md, sc |-> VAdd(st.md[st.xc].C, g.xsc.C.MOVE)]

\* p7_ReferenceASCForward() on an anchor list whose coordinates lie in the
\* matrix: the rows of the two matrices and the score.
p7_ReferenceASCForward(g, sq, a, mu, md) ==
  ASCScore(g, ASCDomains(g, sq, a, 1, ASCInit(g, sq, a, mu, md)))

\* The anchor contract: rows ascending, inside 1..L; columns inside 1..M.
AnchorContract(a, L, M) ==
  /\ \A d \in 1..Len(a) : a[d][1] \in 1..L /\ a[d][2] \in 1..M
  /\ \A d \in 1..(Len(a) - 1) : a[d][1] < a[d + 1][1]

\* Every anchor names a cell of the matrix, so that the fill stays inside
\* dsq[1..L], gm->tsc, gm->rsc and the rows 0..L.
AnchorsInMatrix(a, L, M) ==
  \A d \in 1..Len(a) : a[d][1] \in 1..L /\ a[d][2] \in 1..M

\* The anchor lists that keep the contract, D = 0 included.
GoodAnchors(L, M) ==
  {a \in UNION {[1..D -> (1..L) \X (1..M)] : D \in 0..L} : AnchorContract(a, L, M)}

\* Lists that break the contract in one place: two neighbours out of
\* order, a row outside 1..L, or a column outside 1..M.
BadAnchors(L, M) ==
  UNION {  {[a EXCEPT ![d] = a[d + 1], ![d + 1] = a[d]] : d \in 1..(Len(a) - 1)}
             \cup {[a EXCEPT ![d] = <<i, a[d][2]>>] : d \in 1..Len(a), i \in {0, L + 1}}
             \cup {[a EXCEPT ![d] = <<a[d][1], k>>] : d \in 1..Len(a), k \in {0, M + 1}}
         : a \in GoodAnchors(L, M)}

\* The anchor lists a caller passes.
ASCAnchors(L, M) == GoodAnchors(L, M) \cup BadAnchors(L, M)

\* The brute profiles the ASC fill is run on.
ASCParams ==
  {pm \in BruteParams :
     /\ pm.b = Pr(1, 2) /\ pm.a = pm.c /\ pm.e = pm.g
     /\ pm.i = Pr(1, 2) /\ pm.l = Pr(1, 2) /\ pm.m = Pr(1, 2)
     /\ pm.p = Pr(1, 2) /\ pm.r = Pr(1, 2) /\ pm.s = Pr(1, 2)}

ASCSeqs ==
  {[i \in 1..L |-> 0] : L \in 0..MaxAscL}
    \cup UNION {[1..L -> DResidues] : L \in 1..MaxMixL}

\* A profile, a target, an anchor list, and two matrices of the caller
\* with whatever an earlier use left in them.
InitASCOn(params) ==
  /\ uprm \in params
  /\ gm = BruteProfile(uprm)
  /\ dsq \in ASCSeqs
  /\ anch \in ASCAnchors(Len(dsq), gm.M)
  /\ \E v \in {VInf, VStale} :
       /\ mxu = StaleMx(gm.M, Len(dsq), v)
       /\ mxd = StaleMx(gm.M, Len(dsq), v)
       /\ asc = [pc |-> "start", status |-> "none", sc |-> VInf, fill |-> v,
                     bstatus |-> "none", bsc |-> VInf, bx |-> <<>>]
  /\ tr = Idle /\ vit = Idle /\ fwd = Idle /\ bck = Idle /\ rs = Idle
  /\ gx = Idle /\ gt = Idle
  /\ IdleCP
  /\ IdleEM
  /\ IdleAux

InitASC == InitASCOn(ASCParams)

\* p7_ReferenceASCForward(dsq, L, gm, anch, D, mxu, mxd, &sc).  The matrix
\* headers are set before any anchor is looked at.  An anchor outside the
\* matrix makes the fill read and write out of bounds: the call then
\* returns eslOK with some score, or the process dies.
ReferenceASCForward ==
  /\ asc.pc = "start"
  /\ IF AnchorsInMatrix(anch, Len(dsq), gm.M)
     THEN \E r \in {p7_ReferenceASCForward(gm, dsq, anch, mxu.dp, mxd.dp)} :
              /\ mxu' = [type |-> "p7R_ASC_FWD_UP", M |-> gm.M, L |-> Len(dsq),
                         dp |-> r.mu]
              /\ mxd' = [type |-> "p7R_ASC_FWD_DOWN", M |-> gm.M, L |-> Len(dsq),
                         dp |-> r.md]
              /\ asc' = [asc EXCEPT !.pc = "done", !.status = "eslOK", !.sc = r.sc]
     ELSE \E st \in {"eslOK", "SIGSEGV"}, v \in {VInf, VStale} :
              /\ mxu' = [mxu EXCEPT !.type = "p7R_ASC_FWD_UP", !.M = gm.M,
                                    !.L = Len(dsq)]
              /\ mxd' = [mxd EXCEPT !.type = "p7R_ASC_FWD_DOWN", !.M = gm.M,
                                    !.L = Len(dsq)]
              /\ asc' = [asc EXCEPT !.pc = "done", !.status = st, !.sc = v]
  /\ UNCHANGED <<uprm, gm, dsq, anch, tr, vit, fwd, bck, rs, gx, gt, cpvars, emvars, auxvars>>

NextASC == ReferenceASCForward

SpecASC == InitASC /\ [][NextASC]_vars

\* C5: for every anchor list of D >= 1 anchors that keeps the contract,
\* every state path summed into the ASC Forward score passes through the
\* match cell (i_d, k_d) of every anchor d, and the score is -inf exactly
\* when no path is summed.
C5_claim ==
  (asc.pc = "done" /\ Len(anch) >= 1 /\ AnchorContract(anch, Len(dsq), gm.M))
     => /\ \A pa \in asc.sc.ps : \A d \in 1..Len(anch) : anch[d] \in pa
        /\ (asc.sc.sc = MINUSINF) <=> (asc.sc.ps = {})

C5_witness ==
  /\ asc.pc = "done"
  /\ Len(anch) >= 2
  /\ AnchorContract(anch, Len(dsq), gm.M)
  /\ asc.fill = VStale
  /\ Cardinality(asc.sc.ps) >= 2

\* C8: an anchor list that breaks the anchor contract is detected at entry
\* of the ASC Forward fill, which returns eslEINVAL and leaves both DP
\* matrices as they were.
C8_claim ==
  (asc.pc = "done" /\ ~AnchorContract(anch, Len(dsq), gm.M))
     => /\ asc.status = "eslEINVAL"
        /\ mxu = StaleMx(gm.M, Len(dsq), asc.fill)
        /\ mxd = StaleMx(gm.M, Len(dsq), asc.fill)

(***************************************************************************)
(* Part 6.  Sequence emission, h3/emit.c: p7_CoreEmit and p7_ProfileEmit.  *)
(* A probability vector is held as its support: the vector element is TRUE *)
(* where the probability is positive, and esl_rnd_FChoose can return any   *)
(* index whose element is TRUE.                                            *)
(***************************************************************************)

\* The largest model and the longest sequence that is sampled.
MaxEmM == 2

MaxEmL == 3

\* hmm->abc->K
EmK == 2

\* hmm->t[k] for k = 0..M, as <<MM, MI, MD, IM, II, DM, DD>>; t[0] holds
\* the B->M1, B->I0 and B->D1 transitions.
EmT(M, bi, ins, del) ==
  [k \in 0..M |->
     IF k = 0 THEN <<TRUE, bi, del, TRUE, FALSE, TRUE, FALSE>>
     ELSE <<TRUE, ins, del /\ k < M, TRUE, ins, TRUE, del /\ k < M>>]

\* The core models and the profiles made of them: gm->begin[k] is positive
\* for every k in local mode and for k = 1 only otherwise; gm->xt[E] has a
\* positive E->J probability in multihit mode.
EmHmms ==
  { [M |-> M, t |-> EmT(M, bi, ins, del), local |-> lo, multi |-> mu] :
      M \in 1..MaxEmM, bi \in BOOLEAN, ins \in BOOLEAN, del \in BOOLEAN,
      lo \in BOOLEAN, mu \in BOOLEAN }

\* esl_rnd_FChoose(r, p + from, n): the indices it can return.
esl_rnd_FChoose(p, from, n) == { j \in 0..(n - 1) : p[from + j + 1] }

\* What sq and tr can hold when the caller passes them in.
EmOldSq == { <<>>, <<1>> }

EmOldTr == { <<>>, <<[st |-> "S", k |-> 0, i |-> 0]>> }

\* The value the model keeps where the caller passed NULL.
NULL == <<>>

\* esl_sq_XAddResidue(sq, x), when sq is there
esl_sq_XAddResidue(sq, x) == Append(sq, x)

\* The while (i == 0) test that closes the do loop of p7_CoreEmit.
CoreEmitAgain_mut(i) == FALSE

CoreEmitAgain(i) == i = 0

InitEM ==
  /\ \E fn \in {"core", "profile"}, h \in EmHmms, sqp \in BOOLEAN,
        trp \in BOOLEAN :
     \E sq \in IF sqp THEN EmOldSq ELSE {NULL},
        t \in IF trp THEN EmOldTr ELSE {NULL} :
       em = [fn |-> fn, hmm |-> h, pc |-> "start", sqp |-> sqp,
             trp |-> trp, sq |-> sq, tr |-> t,
             st |-> "-", k |-> 0, kend |-> 0, i |-> 0, status |-> "-",
             again |-> FALSE, nullref |-> FALSE]
  /\ IdleCP
  /\ IdleGT
  /\ IdleDP
  /\ IdleASC
  /\ IdleAux

\* p7_CoreEmit, the head of the do loop: sq and tr are reset, and the trace
\* starts S, N, B.
CoreEmitBegin ==
  /\ em.fn = "core"
  /\ em.pc = "start"
  /\ em' = [em EXCEPT
       !.sq = <<>>,
       !.tr = IF ~em.trp THEN NULL
              ELSE p7_trace_Append(p7_trace_Append(p7_trace_Append(<<>>,
                     "S", 0, 0), "N", 0, 0), "B", 0, 0),
       !.st = "B", !.k = 0, !.i = 0, !.pc = "loop"]
  /\ UNCHANGED <<cpvars, gtvars, dpvars, ascvars, auxvars>>

\* The state types p7_CoreEmit can sample after state st at node k; "B->I"
\* stands for the eslECORRUPT exception.
CoreEmitNext(h, st, k) ==
  CASE st = "B" ->
         { CASE j = 0 -> "M" [] j = 1 -> "B->I" [] OTHER -> "D" :
             j \in esl_rnd_FChoose(h.t[0], 0, 3) }
    [] st = "M" ->
         IF k = h.M THEN {"E"}
         ELSE { CASE j = 0 -> "M" [] j = 1 -> "I" [] OTHER -> "D" :
                  j \in esl_rnd_FChoose(h.t[k], 0, 3) }
    [] st = "I" ->
         { IF j = 0 THEN "M" ELSE "I" : j \in esl_rnd_FChoose(h.t[k], 3, 2) }
    [] OTHER ->
         IF k = h.M THEN {"E"}
         ELSE { IF j = 0 THEN "M" ELSE "D" :
                  j \in esl_rnd_FChoose(h.t[k], 5, 2) }

\* Right wing retraction: while (tr->st[tr->N-1] == p7_STD) tr->N--
RECURSIVE EmRewind(_)
EmRewind(t) ==
  IF TrTop(t).st = "D" THEN EmRewind(SubSeq(t, 1, Len(t) - 1)) ELSE t

\* The trace after state st is added to it (p7_CoreEmit, "Add state to
\* trace"): x is the residue, or -1 for eslDSQ_SENTINEL.
CoreEmitTrace(t, st, k, i, x) ==
  IF ~em.trp THEN NULL
  ELSE LET u == IF st = "E" THEN EmRewind(t) ELSE t
       IN IF TrTop(u).st = "B" /\ st = "D" THEN u
          ELSE p7_trace_Append(u, st, k, IF x = -1 THEN 0 ELSE i)

\* p7_CoreEmit, one iteration of while (st != p7_STE): the next state is
\* sampled, k and i are bumped, a residue is sampled in a match or insert
\* state, and the state and the residue are added to tr and sq.
CoreEmitStep ==
  /\ em.fn = "core"
  /\ em.pc = "loop"
  /\ em.st # "E"
  /\ \E st \in CoreEmitNext(em.hmm, em.st, em.k) :
       IF st = "B->I"
       THEN em' = [em EXCEPT !.pc = "done", !.status = "eslECORRUPT"]
       ELSE \E x \in IF st \in {"M", "I"} THEN 0..(EmK - 1) ELSE {-1} :
              LET k == IF st \in {"M", "D"} THEN em.k + 1 ELSE em.k
                  i == IF st \in {"M", "I"} THEN em.i + 1 ELSE em.i
              IN /\ i <= MaxEmL
                 /\ em' = [em EXCEPT
                      !.st = st, !.k = k, !.i = i,
                      !.tr = CoreEmitTrace(@, st, k, i, x),
                      !.sq = IF em.sqp /\ x # -1
                             THEN esl_sq_XAddResidue(@, x) ELSE @]
  /\ UNCHANGED <<cpvars, gtvars, dpvars, ascvars, auxvars>>

\* p7_CoreEmit once E is reached: the trace is finished with C and T; an
\* empty sample sends control back to the head of the do loop; otherwise
\* the sequence is terminated with the sentinel and eslOK is returned.  The
\* terminating esl_sq_XAddResidue is called whether or not sq is NULL, and
\* with sq NULL it dereferences the null pointer: the call can crash, or
\* return with anything.
CoreEmitEnd ==
  /\ em.fn = "core"
  /\ em.pc = "loop"
  /\ em.st = "E"
  /\ LET t == IF ~em.trp THEN NULL
              ELSE p7_trace_Append(p7_trace_Append(em.tr, "C", 0, 0),
                                   "T", 0, 0)
     IN IF CoreEmitAgain(em.i)
        THEN em' = [em EXCEPT !.tr = t, !.pc = "start", !.again = TRUE]
        ELSE IF ~em.sqp
        THEN \E s \in {"eslOK", "eslEMEM", "SIGSEGV"} :
               em' = [em EXCEPT !.tr = t, !.pc = "done", !.status = s,
                                !.nullref = TRUE]
        ELSE em' = [em EXCEPT !.tr = t, !.pc = "done", !.status = "eslOK",
                              !.sq = esl_sq_XAddResidue(@, -1)]
  /\ UNCHANGED <<cpvars, gtvars, dpvars, ascvars, auxvars>>

\* sample_endpoints: kstart is sampled from begin[k] * (M - k + 1), kend
\* uniformly from kstart..M.
sample_endpoints_mut(h) ==
  { <<ks, ke>> \in (1..h.M) \X (1..h.M) :
      /\ h.local \/ ks = 1
      /\ ke \in 1..h.M }

sample_endpoints(h) ==
  { <<ks, ke>> \in (1..h.M) \X (1..h.M) :
      /\ h.local \/ ks = 1
      /\ ke \in ks..h.M }

\* The state p7_ProfileEmit can sample after state st at node k, with the
\* node the state is in; every loop of the flanking states has a positive
\* probability, and E->J has one in multihit mode.
ProfileEmitNext(h, st, k, kend) ==
  CASE st = "B" -> { [st |-> "M", k |-> e[1], kend |-> e[2]] :
                       e \in sample_endpoints(h) }
    [] st = "M" ->
         IF k = kend THEN { [st |-> "E", k |-> 0, kend |-> kend] }
         ELSE { [st |-> CASE j = 0 -> "M" [] j = 1 -> "I" [] OTHER -> "D",
                 k |-> IF j = 1 THEN k ELSE k + 1, kend |-> kend] :
                  j \in esl_rnd_FChoose(h.t[k], 0, 3) }
    [] st = "D" ->
         IF k = kend THEN { [st |-> "E", k |-> 0, kend |-> kend] }
         ELSE { [st |-> IF j = 0 THEN "M" ELSE "D", k |-> k + 1,
                 kend |-> kend] : j \in esl_rnd_FChoose(h.t[k], 5, 2) }
    [] st = "I" ->
         { [st |-> IF j = 0 THEN "M" ELSE "I",
            k |-> IF j = 0 THEN k + 1 ELSE k, kend |-> kend] :
             j \in esl_rnd_FChoose(h.t[k], 3, 2) }
    [] st = "N" -> { [st |-> s, k |-> k, kend |-> kend] : s \in {"B", "N"} }
    [] st = "E" -> { [st |-> s, k |-> k, kend |-> kend] :
                       s \in IF h.multi THEN {"C", "J"} ELSE {"C"} }
    [] st = "J" -> { [st |-> s, k |-> k, kend |-> kend] : s \in {"B", "J"} }
    [] OTHER -> { [st |-> s, k |-> k, kend |-> kend] : s \in {"T", "C"} }

\* p7_ProfileEmit up to its loop: sq and tr are reset, the trace starts
\* S, N.
ProfileEmitBegin ==
  /\ em.fn = "profile"
  /\ em.pc = "start"
  /\ em' = [em EXCEPT
       !.sq = <<>>,
       !.tr = IF ~em.trp THEN NULL
              ELSE p7_trace_Append(p7_trace_Append(<<>>, "S", 0, 0),
                                   "N", 0, 0),
       !.st = "N", !.k = 0, !.i = 0, !.pc = "loop"]
  /\ UNCHANGED <<cpvars, gtvars, dpvars, ascvars, auxvars>>

\* p7_ProfileEmit, one iteration of while (st != p7_STT).
ProfileEmitStep ==
  /\ em.fn = "profile"
  /\ em.pc = "loop"
  /\ em.st # "T"
  /\ \E n \in ProfileEmitNext(em.hmm, em.st, em.k, em.kend) :
     \E x \in IF \/ n.st \in {"M", "I"}
                 \/ n.st \in {"N", "C", "J"} /\ em.st = n.st
              THEN 0..(EmK - 1) ELSE {-1} :
       LET i == IF x # -1 THEN em.i + 1 ELSE em.i
       IN /\ i <= MaxEmL
          /\ em' = [em EXCEPT
               !.st = n.st, !.k = n.k, !.kend = n.kend, !.i = i,
               !.sq = IF em.sqp /\ x # -1
                      THEN esl_sq_XAddResidue(@, x) ELSE @,
               !.tr = IF ~em.trp THEN NULL
                      ELSE p7_trace_Append(@, n.st, n.k,
                                           IF x = -1 THEN 0 ELSE i)]
  /\ UNCHANGED <<cpvars, gtvars, dpvars, ascvars, auxvars>>

\* p7_ProfileEmit after its loop: the sequence, if there is one, is
\* terminated with the sentinel.
ProfileEmitEnd ==
  /\ em.fn = "profile"
  /\ em.pc = "loop"
  /\ em.st = "T"
  /\ em' = [em EXCEPT !.pc = "done", !.status = "eslOK",
                      !.sq = IF ~em.sqp THEN NULL
                             ELSE esl_sq_XAddResidue(@, -1)]
  /\ UNCHANGED <<cpvars, gtvars, dpvars, ascvars, auxvars>>

NextEM ==
  \/ CoreEmitBegin
  \/ CoreEmitStep
  \/ CoreEmitEnd
  \/ ProfileEmitBegin
  \/ ProfileEmitStep
  \/ ProfileEmitEnd

SpecEM == InitEM /\ [][NextEM]_vars

\* The residues of a sequence that esl_sq_XAddResidue has terminated.
EmResidues(sq) == SelectSeq(sq, LAMBDA x : x # -1)

\* The states of a trace that emit a residue (their i is not 0).
EmEmitters(t) == SelectSeq(t, LAMBDA e : e.i # 0)

\* C11: a sequence that p7_CoreEmit or p7_ProfileEmit returns with eslOK
\* has at least one residue; sq holds exactly the residues of that sample
\* and tr exactly its states, one S at its head, whatever they held before
\* and however many empty samples were rejected.
C11_claim ==
  (em.pc = "done" /\ em.status = "eslOK") =>
     /\ em.i >= 1
     /\ em.sqp => Len(EmResidues(em.sq)) = em.i
     /\ em.trp =>
          /\ Len(EmEmitters(em.tr)) = em.i
          /\ em.tr[1].st = "S"
          /\ \A z \in 2..Len(em.tr) : em.tr[z].st # "S"

C11_witness ==
  /\ em.pc = "done"
  /\ em.status = "eslOK"
  /\ em.fn = "core"
  /\ em.again
  /\ em.sqp
  /\ em.trp
  /\ em.i = 2

\* C18: p7_CoreEmit returns eslOK when sq is NULL or tr is NULL, and never
\* dereferences the one that is NULL.
C18_claim ==
  (em.pc = "done" /\ em.fn = "core" /\ em.status # "eslECORRUPT"
     /\ (~em.sqp \/ ~em.trp)) =>
     em.status = "eslOK" /\ ~em.nullref

(***************************************************************************)
(* Part 7.  Properties of the traces and rows of Part 4.                   *)
(***************************************************************************)

\* The transitions a trace is allowed to make between two of its elements:
\* S->N, N->N|B, B->L|G, L->ML_k, G->MG_1|DG_1, the M/I/D chain of a
\* domain in one mode with k moving as the states say, an exit to E from
\* any ML_k or DL_k and from MG_M or DG_M, E->C|J, J->J|B, C->C|T.
TraceLegal(M, a, b) ==
  LET loc(e)  == e.st \in {"ML", "IL", "DL"}
      kind(e) == IF e.st \in {"ML", "MG"} THEN "M"
                 ELSE IF e.st \in {"IL", "IG"} THEN "I"
                 ELSE IF e.st \in {"DL", "DG"} THEN "D" ELSE e.st
      ka == kind(a)
      kb == kind(b)
  IN
  CASE ka = "S" -> kb = "N"
    [] ka = "N" -> kb \in {"N", "B"}
    [] ka = "B" -> kb \in {"L", "G"}
    [] ka = "L" -> b.st = "ML" /\ b.k \in 1..M
    [] ka = "G" -> b.st \in {"MG", "DG"} /\ b.k = 1
    [] ka = "M" ->
         \/ kb \in {"M", "D"} /\ loc(a) = loc(b) /\ b.k = a.k + 1 /\ b.k <= M
         \/ kb = "I" /\ loc(a) = loc(b) /\ b.k = a.k /\ a.k < M
         \/ kb = "E" /\ (loc(a) \/ a.k = M)
    [] ka = "I" ->
         \/ kb = "I" /\ loc(a) = loc(b) /\ b.k = a.k
         \/ kb = "M" /\ loc(a) = loc(b) /\ b.k = a.k + 1 /\ b.k <= M
    [] ka = "D" ->
         \/ kb \in {"M", "D"} /\ loc(a) = loc(b) /\ b.k = a.k + 1 /\ b.k <= M
         \/ kb = "E" /\ (loc(a) \/ a.k = M)
    [] ka = "E" -> kb \in {"C", "J"}
    [] ka = "J" -> kb \in {"J", "B"}
    [] ka = "C" -> kb \in {"C", "T"}
    [] OTHER -> FALSE

\* p7_trace_Validate(): the trace begins S, N and ends C, T, every step of
\* it is a legal transition, and its emitting states account for x_1..x_L.
TraceValid(t, M, L) ==
  /\ Len(t) >= 4
  /\ t[1].st = "S"
  /\ t[2].st = "N"
  /\ t[Len(t) - 1].st = "C"
  /\ t[Len(t)].st = "T"
  /\ \A z \in 1..(Len(t) - 1) : TraceLegal(M, t[z], t[z + 1])
  /\ TraceCovers(t, L)

\* C12: whenever the Viterbi score is finite the traceback returns eslOK
\* and a valid trace: it begins S->N, ends C->T, and every domain in it is
\* B->{L|G}->(M/I/D chain)->E.
C12_claim ==
  (rs.pc # "start" /\ rs.vsc # MINUSINF)
     => rs.vstatus = "eslOK" /\ TraceValid(tr, gm.M, Len(dsq))

C12_witness ==
  /\ rs.pc = "vit"
  /\ rs.vsc # MINUSINF
  /\ Len(dsq) = BruteMaxL
  /\ \E z \in 1..Len(tr) : tr[z].st = "L"
  /\ \E z \in 1..(Len(tr) - 1) : tr[z].st = "N" /\ tr[z + 1].st = "N"

(***************************************************************************)
(* Part 8.  The ASC Backward fill, p7_ReferenceASCBackward, on the cells   *)
(* of Part 5.                                                              *)
(***************************************************************************)

\* A pair of values for the glocal and the local path.
InfPair == [G |-> VInf, L |-> VInf]

\* mgn, mln as a DOWN or UP row i picks them up for column k: the match
\* cells of (i+1, k+1) with their emission score added; -inf in the last
\* column of the sector and on its last row, which has no row after it.
ASCBckMatchNext(g, sq, i, lo, hi, nx, last) ==
  [k \in lo..hi |->
     IF last \/ k = hi THEN InfPair
     ELSE [G |-> VEmit(nx[k + 1].MG, i + 1, k + 1, g.rsc[sq[i + 1]][k + 1].MSC),
           L |-> VEmit(nx[k + 1].ML, i + 1, k + 1, g.rsc[sq[i + 1]][k + 1].MSC)]]

\* ign, iln: the insert cells of (i+1, k).
ASCBckInsNext(lo, hi, nx, last) ==
  [k \in lo..hi |->
     IF last THEN InfPair ELSE [G |-> nx[k].IG, L |-> nx[k].IL]]

\* The six values of cell (i, k) from mgn/mln (mn), ign/iln (in), dgn/dln
\* (dn, the delete cells of column k+1 on the same row) and xE.  In column
\* M of a DOWN row MG and DG are xE itself.
ASCBckCell(g, xE, k, mn, in, dn) ==
  LET t == TscAt(g, k)
  IN  [MG |-> IF k = g.M THEN xE
              ELSE VSum(VSum(VAdd(mn.G, t.MM), VAdd(in.G, t.MI)),
                        VAdd(dn.G, t.MD)),
       ML |-> VSum(VSum(VAdd(mn.L, t.MM), VAdd(in.L, t.MI)),
                   VSum(VAdd(dn.L, t.MD), xE)),
       DG |-> IF k = g.M THEN xE
              ELSE VSum(VAdd(mn.G, t.DM), VAdd(dn.G, t.DD)),
       DL |-> VSum(xE, VSum(VAdd(mn.L, t.DM), VAdd(dn.L, t.DD))),
       IG |-> VSum(VAdd(mn.G, t.IM), VAdd(in.G, t.II)),
       IL |-> VSum(VAdd(mn.L, t.IM), VAdd(in.L, t.II))]

\* for (k = hi; k >= lo; k--): the cells of one row, column by column.
RECURSIVE ASCBckSweep(_, _, _, _, _, _, _, _)
ASCBckSweep(g, xE, lo, hi, k, mnf, inf, acc) ==
  IF k < lo THEN acc
  ELSE ASCBckSweep(g, xE, lo, hi, k - 1, mnf, inf,
         (k :> ASCBckCell(g, xE, k, mnf[k], inf[k],
                 IF k = hi THEN InfPair
                 ELSE [G |-> acc[k + 1].DG, L |-> acc[k + 1].DL])) @@ acc)

\* The empty row: no column.
NoCells == [k \in {} |-> InfCell]

\* Row i of the DOWN sector of domain d, columns kd..M; nx is row i+1.
ASCBckDownRow(g, sq, xs, i, kd, iend, nx) ==
  ASCBckSweep(g, xs[i].E, kd, g.M, g.M,
              ASCBckMatchNext(g, sq, i, kd, g.M, nx, i = iend),
              ASCBckInsNext(kd, g.M, nx, i = iend), NoCells)

\* for (i = iend; i >= anch[d].n1; i--): the DOWN sector; its result is
\* the row of the anchor.
RECURSIVE ASCBckDown(_, _, _, _, _, _, _, _)
ASCBckDownStep(g, sq, xs, i, i0, kd, iend, row) ==
  IF i = i0 THEN row ELSE ASCBckDown(g, sq, xs, i - 1, i0, kd, iend, row)

ASCBckDown(g, sq, xs, i, i0, kd, iend, nx) ==
  ASCBckDownStep(g, sq, xs, i, i0, kd, iend,
                 ASCBckDownRow(g, sq, xs, i, kd, iend, nx))

\* mgn, mln, xG, xL after the DOWN sector: the anchor cell with its
\* emission score, and the entries G->Mk, L->Mk into it.
ASCBckAnchor(g, sq, ai, ak, cell) ==
  LET mgn == VEmit(cell.MG, ai, ak, g.rsc[sq[ai]][ak].MSC)
      mln == VEmit(cell.ML, ai, ak, g.rsc[sq[ai]][ak].MSC)
  IN  [mn |-> [G |-> mgn, L |-> mln],
       xG |-> VAdd(mgn, TscAt(g, ak - 1).GM),
       xL |-> VAdd(mln, TscAt(g, ak - 1).LM)]

\* The specials of a row of the UP sector, or of the row under it, from
\* xG, xL of the row after it and the xJ, xN carried; d is the domain,
\* counted from 1.
ASCBckSpecials(g, d, xG, xL, xJ, xN) ==
  LET b == VSum(VAdd(xG, g.xsc.B.G), VAdd(xL, g.xsc.B.L))
      j == IF d = 1 THEN VInf
           ELSE VSum(VAdd(xJ, g.xsc.J.LOOP), VAdd(b, g.xsc.J.MOVE))
      n == IF d > 1 THEN VInf
           ELSE VSum(VAdd(xN, g.xsc.N.LOOP), VAdd(b, g.xsc.N.MOVE))
  IN  [E |-> VAdd(j, g.xsc.E.LOOP), N |-> n, J |-> j, B |-> b,
       L |-> xL, G |-> xG, C |-> VInf]

\* xG or xL as an UP row accumulates it over its columns:
\* p7_FLogsum(xG, mgc + *rsc + tsc[p7P_GM - p7P_NTRANS]).
RECURSIVE ASCBckEntry(_, _, _, _, _, _, _)
ASCBckEntry(g, sq, i, k, row, st, acc) ==
  IF k < 1 THEN acc
  ELSE ASCBckEntry(g, sq, i, k - 1, row, st,
         VSum(acc, VAdd(VEmit(row[k][st], i, k, g.rsc[sq[i]][k].MSC),
                        IF st = "MG" THEN TscAt(g, k - 1).GM
                        ELSE TscAt(g, k - 1).LM)))

\* Row i of the UP sector of domain d, columns 1..kd-1; nx is row i+1.  On
\* the row above the anchor, mgn and mln come from the anchor cell in the
\* first column done and are -inf after it.
ASCBckUpRow(g, sq, i, kd, itop, anc, nx) ==
  ASCBckSweep(g, VInf, 1, kd - 1, kd - 1,
              IF i = itop
              THEN [k \in 1..(kd - 1) |-> IF k = kd - 1 THEN anc.mn ELSE InfPair]
              ELSE ASCBckMatchNext(g, sq, i, 1, kd - 1, nx, FALSE),
              ASCBckInsNext(1, kd - 1, nx, i = itop), NoCells)

\* for (i = anch[d].n1-1; i >= iend; i--) and the specials of the row
\* under the sector: the specials xs of abd after the UP sector of domain
\* d.  cur holds xG, xL, xJ, xN and the cells of row i+1.
RECURSIVE ASCBckUp(_, _, _, _, _, _, _, _, _, _)
ASCBckUpNext(g, sq, d, kd, i, itop, iend, anc, x, row, xs) ==
  ASCBckUp(g, sq, d, kd, i - 1, itop, iend, anc,
           [xG |-> ASCBckEntry(g, sq, i, kd - 1, row, "MG", VInf),
            xL |-> ASCBckEntry(g, sq, i, kd - 1, row, "ML", VInf),
            xJ |-> x.J, xN |-> x.N, row |-> row],
           [xs EXCEPT ![i] = x])

ASCBckUp(g, sq, d, kd, i, itop, iend, anc, cur, xs) ==
  IF i < iend
  THEN [xs EXCEPT ![i] = ASCBckSpecials(g, d, cur.xG, cur.xL, cur.xJ, cur.xN)]
  ELSE ASCBckUpNext(g, sq, d, kd, i, itop, iend, anc,
                    ASCBckSpecials(g, d, cur.xG, cur.xL, cur.xJ, cur.xN),
                    ASCBckUpRow(g, sq, i, kd, itop, anc, cur.row), xs)

ASCBckUpStart(g, sq, a, d, anc, xs) ==
  ASCBckUp(g, sq, d, a[d][2], a[d][1] - 1, a[d][1] - 1,
           IF d = 1 THEN 1 ELSE a[d - 1][1] + 1, anc,
           [xG |-> anc.xG, xL |-> anc.xL, xJ |-> VInf, xN |-> VInf,
            row |-> NoCells], xs)

\* The body of for (d = D-1; d >= 0; d--): DOWN sector, anchor cell, UP
\* sector and specials of domain d, counted from 1.
ASCBckDomain(g, sq, a, d, iend, xs) ==
  ASCBckUpStart(g, sq, a, d,
    ASCBckAnchor(g, sq, a[d][1], a[d][2],
      ASCBckDown(g, sq, xs, iend, a[d][1], a[d][2], iend, NoCells)[a[d][2]]),
    xs)

RECURSIVE ASCBckDomains(_, _, _, _, _)
ASCBckDomains(g, sq, a, d, xs) ==
  IF d = 0 THEN xs
  ELSE ASCBckDomains(g, sq, a, d - 1,
         ASCBckDomain(g, sq, a, d,
                      IF d = Len(a) THEN Len(sq) ELSE a[d + 1][1] - 1, xs))

\* for (i = L; i >= iend; i--): the specials of the rows from the last
\* anchor on, where only C and E are reachable.
ASCBckInit(g, L, a, xs) ==
  LET iend == IF Len(a) = 0 THEN 0 ELSE a[Len(a)][1]
      xC(i) == VAdd(VAdd(VZero, g.xsc.C.MOVE), ScTimes(g.xsc.C.LOOP, L - i))
  IN  [i \in 0..L |->
         IF i >= iend
         THEN [E |-> VAdd(xC(i), g.xsc.E.MOVE), N |-> VInf, J |-> VInf,
               B |-> VInf, L |-> VInf, G |-> VInf, C |-> xC(i)]
         ELSE xs[i]]

\* p7_ReferenceASCBackward(dsq, L, gm, anch, D, abu, abd, &sc): the
\* specials of abd after the call.
p7_ReferenceASCBackward(g, sq, a, xs) ==
  ASCBckDomains(g, sq, a, Len(a), ASCBckInit(g, Len(sq), a, xs))

\* The specials of a matrix the caller provides.
StaleSpecials(L, v) ==
  [i \in 0..L |-> [E |-> v, N |-> v, J |-> v, B |-> v, L |-> v, G |-> v,
                   C |-> v]]

\* What the local xN can hold when nothing was assigned to it.
ASCJunk == {VInf, VZero, VStale}

\* p7_ReferenceASCBackward, called after the Forward fill on the same
\* profile, target and anchors, with matrices abu and abd of its own.  The
\* score returned is the local xN, which only the loop over the domains
\* assigns: with D = 0 it is returned without ever being set.  Anchors out
\* of contract make the loops read locals and cells that were never set,
\* or cells outside the matrix.
ReferenceASCBackward ==
  /\ asc.pc = "done"
  /\ asc.status = "eslOK"
  /\ IF AnchorContract(anch, Len(dsq), gm.M)
     THEN \E r \in {p7_ReferenceASCBackward(gm, dsq, anch,
                       StaleSpecials(Len(dsq), asc.fill))} :
          \E v \in IF Len(anch) = 0 THEN ASCJunk ELSE {r[0].N} :
            asc' = [asc EXCEPT !.pc = "bck", !.bstatus = "eslOK",
                               !.bsc = v, !.bx = r]
     ELSE \E st \in {"eslOK", "SIGSEGV"}, v \in ASCJunk :
            asc' = [asc EXCEPT !.pc = "bck", !.bstatus = st, !.bsc = v]
  /\ UNCHANGED <<uprm, gm, dsq, anch, mxu, mxd, tr, vit, fwd, bck, rs, gx, gt,
                 cpvars, emvars, auxvars>>

\* The profiles both fills are run on: those of the Forward fill, and
\* with them profiles whose E->C and E->J scores differ (E->C certain, as
\* in unihit mode).
ASCBParams ==
  {pm \in BruteParams :
     /\ pm.b = Pr(1, 2) /\ pm.a = pm.c /\ pm.e = pm.g
     /\ pm.i = Pr(1, 2) /\ pm.l = Pr(1, 2) /\ pm.m = Pr(1, 2)
     /\ pm.r = Pr(1, 2) /\ pm.s = Pr(1, 2)
     /\ (pm.p = Pr(1, 1) => pm.a = Pr(1, 2) /\ pm.e = Pr(0, 1))}

InitASCB == InitASCOn(ASCBParams)

NextASCB == ReferenceASCForward \/ ReferenceASCBackward

SpecASCB == InitASCB /\ [][NextASCB]_vars

\* C13: for the same profile, target and anchor list in contract, the ASC
\* Backward score equals the ASC Forward score.
C13_claim ==
  (asc.pc = "bck" /\ Len(anch) >= 1 /\ AnchorContract(anch, Len(dsq), gm.M))
     => asc.bsc.sc = asc.sc.sc

\* C14: with no anchor (D = 0) and any L >= 0, ASC Forward and ASC Backward
\* return one and the same well-defined score: the sum over the paths that
\* have no domain, and so pass through no match cell.
C14_claim ==
  (asc.pc = "bck" /\ Len(anch) = 0)
     => /\ asc.bsc = asc.sc
        /\ asc.sc.ps \subseteq {{}}

(***************************************************************************)
(* Part 9.  The generation test (utest_generation): a trace and a target   *)
(* are sampled from the profile and scored, and the target is given to the *)
(* Viterbi and Forward fills of Part 4.                                    *)
(***************************************************************************)

\* The longest target that is sampled.
MaxGenL == 2

\* The brute profiles that are sampled from: unihit ones, and a multihit
\* one.
GenParams ==
  {pm \in BruteParams :
     /\ pm.a = Pr(1, 2) /\ pm.b = Pr(1, 2) /\ pm.c = Pr(1, 2)
     /\ pm.e = pm.g /\ pm.f = Pr(0, 1)
     /\ pm.i = Pr(1, 2) /\ pm.l = Pr(1, 2) /\ pm.m = Pr(1, 2)
     /\ pm.r = Pr(1, 2) /\ pm.s = Pr(1, 2)
     /\ (pm.p = Pr(1, 2) => pm.e = Pr(0, 1))}

\* The residues sampled for position i of the target: any residue first,
\* then A, as in the targets of the brute test.
GenResidues(i) == IF i = 1 THEN DResidues ELSE {0}

GenStates ==
  {"N", "B", "L", "G", "ML", "MG", "IL", "IG", "DL", "DG", "E", "J", "C", "T"}

\* The last domain of a trace has a match state.  The profile has no
\* G->D1..DM->E path: wing retraction removes it.
DomainHasMatch(t) ==
  \E z \in 1..Len(t) :
     /\ t[z].st \in {"ML", "MG"}
     /\ \A y \in z..Len(t) : t[y].st # "B"

\* The states the sampler can move to from the end e of trace t: those a
\* transition of positive probability leads to.
GenNext(g, t) ==
  {n \in [st : GenStates, k : 0..g.M] :
     /\ n.st \in {"ML", "MG", "IL", "IG", "DL", "DG"} \/ n.k = 0
     /\ TraceLegal(g.M, TrTop(t), n)
     /\ TraceT(g, TrTop(t).st, TrTop(t).k, n.st, n.k) # MINUSINF
     /\ n.st = "E" => DomainHasMatch(t)}

\* n emits a residue when entered from state st.
GenEmits(st, n) ==
  n.st \in {"ML", "MG", "IL", "IG"} \/ (n.st \in {"N", "J", "C"} /\ n.st = st)

InitGEN ==
  /\ uprm \in GenParams
  /\ gm = BruteProfile(uprm)
  /\ dsq = <<>>
  /\ tr = <<>>
  /\ vit = <<>>
  /\ fwd = <<>>
  /\ bck = <<>>
  /\ rs = [pc |-> "emit", vsc |-> MINUSINF, fsc |-> MINUSINF,
           bsc |-> MINUSINF, vstatus |-> "none", fstatus |-> "none",
           gtr |-> p7_trace_Append(p7_trace_Append(<<>>, "S", 0, 0),
                                   "N", 0, 0)]
  /\ gx = Idle /\ gt = Idle
  /\ IdleCP
  /\ IdleASC
  /\ IdleEM
  /\ IdleAux

\* p7_ProfileEmit(rng, hmm, gm, bg, sq, tr), one state at a time: the next
\* state is sampled, with a residue if it emits one.  A sample that reaches
\* T with no residue is rejected; one with a residue is handed to the DP
\* routines.
GenEmitStep ==
  /\ rs.pc = "emit"
  /\ \E n \in GenNext(gm, rs.gtr) :
       IF GenEmits(TrTop(rs.gtr).st, n)
       THEN /\ Len(dsq) < MaxGenL
            /\ \E x \in GenResidues(Len(dsq) + 1) :
                 /\ dsq' = Append(dsq, x)
                 /\ rs' = [rs EXCEPT !.gtr = p7_trace_Append(@, n.st, n.k,
                                                            Len(dsq) + 1)]
       ELSE /\ n.st = "T" => Len(dsq) >= 1
            /\ dsq' = dsq
            /\ rs' = [rs EXCEPT !.gtr = p7_trace_Append(@, n.st, n.k, 0),
                                !.pc = IF n.st = "T" THEN "start" ELSE @]
  /\ UNCHANGED <<uprm, gm, tr, vit, fwd, bck, gx, gt, cpvars, ascvars, emvars, auxvars>>

NextGEN == GenEmitStep \/ ReferenceViterbi \/ ReferenceForward

SpecGEN == InitGEN /\ [][NextGEN]_vars

\* C15: the score of a trace sampled from the profile is less than or
\* equal to the Viterbi score, and to the Forward score, of the target
\* sampled with it.
C15_claim ==
  rs.pc = "fwd" =>
     /\ ScGE(rs.vsc, p7_trace_Score(gm, dsq, rs.gtr))
     /\ ScGE(rs.fsc, p7_trace_Score(gm, dsq, rs.gtr))

C15_witness ==
  /\ rs.pc = "fwd"
  /\ Len(dsq) = MaxGenL
  /\ p7_trace_Score(gm, dsq, rs.gtr) # MINUSINF
  /\ ScGT(rs.vsc, p7_trace_Score(gm, dsq, rs.gtr))
  /\ \E z \in 1..Len(rs.gtr) : rs.gtr[z].st = "J"

(***************************************************************************)
(* Part 10.  The empty target (reference_fwdback.c, p7_ReferenceForward;   *)
(* generic_fwdback_dual.c, p7_GForwardDual).  With L = 0 the row loop does *)
(* not run and the score is row 0's C plus C->T.                           *)
(***************************************************************************)

\* The states of the profile that emit nothing.
MuteStates(M) ==
  {[st |-> s, k |-> 0] : s \in {"S", "N", "B", "L", "G", "E", "J", "C", "T"}}
    \cup {[st |-> s, k |-> k] : s \in {"DL", "DG"}, k \in 1..M}

\* The transitions between mute states that the recursion of
\* p7_ReferenceForward has: L and G feed the match cells only (G through the
\* wing-retracted G->Mk), so neither has a mute successor.
MuteT(g, a, b) ==
  IF a.st \in {"L", "G"} THEN MINUSINF ELSE TraceT(g, a.st, a.k, b.st, b.k)

RECURSIVE LogsumOver(_, _)
LogsumOver(f, S) ==
  IF S = {} THEN MINUSINF
  ELSE LET s == CHOOSE x \in S : TRUE
       IN  p7_FLogsum(f[s], LogsumOver(f, S \ {s}))

\* One more step of every mute path: v and the result are sets of
\* <<state, score>> pairs, one pair for each mute state.
MuteReach(v, s) == (CHOOSE e \in v : e[1] = s)[2]

MuteStep(g, v, Q) ==
  LET live == {e \in v : e[2] # MINUSINF}
  IN  {<<s, LogsumOver([e \in live |-> Plus(e[2], MuteT(g, e[1], s))], live)>> :
         s \in Q}

RECURSIVE MuteSum(_, _, _, _)
MuteSum(g, v, Q, z) ==
  LET atT == MuteReach(v, [st |-> "T", k |-> 0])
  IN  IF z = 0 \/ \A e \in v : e[2] = MINUSINF THEN atT
      ELSE p7_FLogsum(atT, MuteSum(g, MuteStep(g, v, Q), Q, z - 1))

\* The probability that the profile generates the empty sequence: the sum
\* over every path S ... T through mute states only, by number of steps.
EmptyPathScore(g) ==
  LET Q == MuteStates(g.M)
  IN  MuteSum(g, {<<s, IF s.st = "S" THEN SC0 ELSE MINUSINF>> : s \in Q}, Q,
              Cardinality(Q))

EnumParams == {pm \in BruteParams : pm.i = Pr(1, 1) /\ pm.j = Pr(1, 1)}

\* p7_profile_ConfigCustom(gm, hmm, bg, 0, 0.0, pglocal): with L = 0 and
\* nj = 0 the N, C and J states never loop and E always moves to C.
EnumProfile_mut(prm) ==
  LET g == BruteProfile(prm)
  IN  [g EXCEPT !.xsc.N = [LOOP |-> Pr(1, 2), MOVE |-> Pr(1, 2)],
                !.xsc.C = [LOOP |-> Pr(0, 1), MOVE |-> Pr(1, 1)],
                !.xsc.J = [LOOP |-> Pr(0, 1), MOVE |-> Pr(1, 1)],
                !.xsc.E = [LOOP |-> Pr(0, 1), MOVE |-> Pr(1, 1)]]

EnumProfile(prm) ==
  LET g == BruteProfile(prm)
  IN  [g EXCEPT !.xsc.N = [LOOP |-> Pr(0, 1), MOVE |-> Pr(1, 1)],
                !.xsc.C = [LOOP |-> Pr(0, 1), MOVE |-> Pr(1, 1)],
                !.xsc.J = [LOOP |-> Pr(0, 1), MOVE |-> Pr(1, 1)],
                !.xsc.E = [LOOP |-> Pr(0, 1), MOVE |-> Pr(1, 1)]]

\* int maxL = 2*M-1; the last call is on a sequence of length maxL+1.
EnumMaxL(M) == 2 * M - 1

\* The targets: the first sequence that the odometer visits of each length
\* 0..maxL, and every sequence of length maxL+1.
EnumSeqs ==
  {[i \in 1..L |-> 0] : L \in 0..EnumMaxL(BruteM)}
    \cup [1..(EnumMaxL(BruteM) + 1) -> DResidues]

InitEN ==
  /\ uprm \in EnumParams
  /\ gm = EnumProfile(uprm)
  /\ dsq \in EnumSeqs
  /\ tr = <<>>
  /\ vit = <<>>
  /\ fwd = <<>>
  /\ bck = <<>>
  /\ rs = [pc |-> "start", vsc |-> MINUSINF, fsc |-> MINUSINF,
           bsc |-> MINUSINF, vstatus |-> "none", fstatus |-> "none"]
  /\ gx = Idle /\ gt = Idle
  /\ IdleCP
  /\ IdleASC
  /\ IdleEM
  /\ IdleAux

\* p7_ReferenceForward(dsq, L, gm, rmx, &fsc) in the loops of
\* utest_enumeration.
EnumerationForward ==
  /\ rs.pc = "start"
  /\ fwd' = RefForwardMx(dsq, gm)
  /\ rs' = [rs EXCEPT !.pc = "fwd", !.fsc = RefForwardScore(fwd', dsq, gm),
                      !.fstatus = "eslOK"]
  /\ UNCHANGED <<uprm, gm, dsq, tr, vit, bck, gx, gt, cpvars, ascvars, emvars, auxvars>>

NextEN == EnumerationForward

SpecEN == InitEN /\ [][NextEN]_vars

\* C17: for the enumerable profile of length M configured unihit with
\* L = 0 (glocal, local or dual-mode), the Forward score of every sequence
\* of length 2M is -infinity.
C17_claim ==
  (rs.pc = "fwd" /\ Len(dsq) = 2 * gm.M) => rs.fsc = MINUSINF

C17_witness ==
  /\ rs.pc = "fwd"
  /\ Len(dsq) = 2 * gm.M
  /\ gm.xsc.B.L = MINUSINF
  /\ \A k \in 1..(gm.M - 1) : gm.tsc[k].MI # MINUSINF
  /\ fwd[2 * gm.M - 1].C # MINUSINF
  /\ \E z \in 1..Len(dsq) : dsq[z] # dsq[1]

(***************************************************************************)
(* Part 12.  One row of p7_ReferenceViterbi, cell by cell                  *)
(* (reference_viterbi.c, lines 80-168): the sweep over k = 1..M with the   *)
(* registers mlv, mgv, dlv, dgv, xE, in which the delete cells of node k   *)
(* are stored before dlv and dgv are advanced to node k+1.  vit holds the  *)
(* matrix with rows 0..i-1 filled and rs holds the registers.              *)
(***************************************************************************)

\* Longest target of the sweep.
MaxSweepL == 2

SweepSeqs == UNION {[1..L -> DResidues] : L \in 1..MaxSweepL}

\* Row i before the sweep writes it; no cell of it is read before it is
\* written.
BlankRow(M) ==
  LET inf == [k \in 0..M |-> MINUSINF]
  IN  [ML |-> inf, MG |-> inf, IL |-> inf, IG |-> inf, DL |-> inf, DG |-> inf,
       E |-> MINUSINF, N |-> MINUSINF, J |-> MINUSINF, B |-> MINUSINF,
       L |-> MINUSINF, G |-> MINUSINF, C |-> MINUSINF]

InitSW ==
  /\ uprm \in BruteParams
  /\ gm = BruteProfile(uprm)
  /\ dsq \in SweepSeqs
  /\ tr = <<>>
  /\ LET L  == Len(dsq)
         mx == RefViterbiMx(SubSeq(dsq, 1, L - 1), gm)
     IN  vit = [i \in 0..L |-> IF i < L THEN mx[i] ELSE BlankRow(gm.M)]
  /\ fwd = <<>>
  /\ bck = <<>>
  /\ rs = [pc |-> "row", i |-> Len(dsq), k |-> 0,
           mlv |-> MINUSINF, mgv |-> MINUSINF,
           dlv |-> MINUSINF, dgv |-> MINUSINF, xE |-> MINUSINF]
  /\ gx = Idle /\ gt = Idle
  /\ IdleCP
  /\ IdleASC
  /\ IdleEM
  /\ IdleAux

\* mlv = *dpc++ = *rsc + ESL_MAX(ESL_MAX(ML + MM, IL + IM),
\*                               ESL_MAX(DL + DM, xL + LM))
SweepML(g, x, p, k) ==
  Plus(g.rsc[x][k].MSC,
       ESL_MAX(ESL_MAX(Plus(p.ML[k-1], g.tsc[k-1].MM),
                       Plus(p.IL[k-1], g.tsc[k-1].IM)),
               ESL_MAX(Plus(p.DL[k-1], g.tsc[k-1].DM),
                       Plus(p.L, g.tsc[k-1].LM))))

SweepMG(g, x, p, k) ==
  Plus(g.rsc[x][k].MSC,
       ESL_MAX(ESL_MAX(Plus(p.MG[k-1], g.tsc[k-1].MM),
                       Plus(p.IG[k-1], g.tsc[k-1].IM)),
               ESL_MAX(Plus(p.DG[k-1], g.tsc[k-1].DM),
                       Plus(p.G, g.tsc[k-1].GM))))

\* Delete state, deferred storage trick: *dpc++ = dlv; *dpc++ = dgv; and
\* then dlv and dgv are advanced.  The result is the pair of stored cells
\* and the pair of new register values.
SweepDelete_mut(g, k, mlv, mgv, dlv, dgv) ==
  LET nl == ESL_MAX(Plus(mlv, g.tsc[k].MD), Plus(dlv, g.tsc[k].DD))
      ng == ESL_MAX(Plus(mgv, g.tsc[k].MD), Plus(dgv, g.tsc[k].DD))
  IN  [DL |-> nl, DG |-> ng, dlv |-> nl, dgv |-> ng]

SweepDelete(g, k, mlv, mgv, dlv, dgv) ==
  [DL  |-> dlv,
   DG  |-> dgv,
   dlv |-> ESL_MAX(Plus(mlv, g.tsc[k].MD), Plus(dlv, g.tsc[k].DD)),
   dgv |-> ESL_MAX(Plus(mgv, g.tsc[k].MD), Plus(dgv, g.tsc[k].DD))]

\* E state update; local paths only: xE = ESL_MAX(mlv, xE).  Dk->E is
\* left out.
SweepE_mut(mlv, xE) == xE

SweepE(mlv, xE) == ESL_MAX(mlv, xE)

\* Initialization for a new row: the cells of k = 0 and the registers.
SweepRowInit ==
  /\ rs.pc = "row"
  /\ vit' = [vit EXCEPT ![rs.i] = BlankRow(gm.M)]
  /\ rs' = [rs EXCEPT !.pc = IF gm.M > 1 THEN "inner" ELSE "last", !.k = 1,
                      !.dlv = MINUSINF, !.dgv = MINUSINF, !.xE = MINUSINF]
  /\ UNCHANGED <<uprm, gm, dsq, tr, fwd, bck, gx, gt, cpvars, ascvars, emvars, auxvars>>

\* One pass of the main inner loop, for (k = 1; k < M; k++).
SweepInner ==
  /\ rs.pc = "inner"
  /\ LET k   == rs.k
         x   == dsq[rs.i]
         p   == vit[rs.i - 1]
         mlv == SweepML(gm, x, p, k)
         mgv == SweepMG(gm, x, p, k)
         il  == Plus(gm.rsc[x][k].ISC,
                     ESL_MAX(Plus(p.ML[k], gm.tsc[k].MI),
                             Plus(p.IL[k], gm.tsc[k].II)))
         ig  == Plus(gm.rsc[x][k].ISC,
                     ESL_MAX(Plus(p.MG[k], gm.tsc[k].MI),
                             Plus(p.IG[k], gm.tsc[k].II)))
         d   == SweepDelete(gm, k, mlv, mgv, rs.dlv, rs.dgv)
     IN  /\ vit' = [vit EXCEPT ![rs.i].ML[k] = mlv, ![rs.i].MG[k] = mgv,
                               ![rs.i].IL[k] = il,  ![rs.i].IG[k] = ig,
                               ![rs.i].DL[k] = d.DL, ![rs.i].DG[k] = d.DG]
         /\ rs' = [rs EXCEPT !.pc = IF k + 1 < gm.M THEN "inner" ELSE "last",
                             !.k = k + 1, !.mlv = mlv, !.mgv = mgv,
                             !.xE = SweepE(mlv, rs.xE),
                             !.dlv = d.dlv, !.dgv = d.dgv]
  /\ UNCHANGED <<uprm, gm, dsq, tr, fwd, bck, gx, gt, cpvars, ascvars, emvars, auxvars>>

\* The k = M node, unrolled: no I state, glocal exits, and D_M by deferred
\* storage only.
SweepLast ==
  /\ rs.pc = "last"
  /\ LET k   == rs.k
         x   == dsq[rs.i]
         p   == vit[rs.i - 1]
         mlv == SweepML(gm, x, p, k)
         mgv == SweepMG(gm, x, p, k)
     IN  /\ vit' = [vit EXCEPT ![rs.i].ML[k] = mlv, ![rs.i].MG[k] = mgv,
                               ![rs.i].IL[k] = MINUSINF,
                               ![rs.i].IG[k] = MINUSINF,
                               ![rs.i].DL[k] = rs.dlv, ![rs.i].DG[k] = rs.dgv]
         /\ rs' = [rs EXCEPT !.pc = "specials", !.mlv = mlv, !.mgv = mgv,
                             !.xE = ESL_MAX(ESL_MAX(mgv, rs.dgv),
                                            SweepE(mlv, rs.xE))]
  /\ UNCHANGED <<uprm, gm, dsq, tr, fwd, bck, gx, gt, cpvars, ascvars, emvars, auxvars>>

\* The special states of row i, in the order E, N, J, B, L, G, C.
SweepSpecials ==
  /\ rs.pc = "specials"
  /\ LET p  == vit[rs.i - 1]
         xN == Plus(p.N, gm.xsc.N.LOOP)
         xJ == ESL_MAX(Plus(p.J, gm.xsc.J.LOOP), Plus(rs.xE, gm.xsc.E.LOOP))
         xB == ESL_MAX(Plus(xN, gm.xsc.N.MOVE), Plus(xJ, gm.xsc.J.MOVE))
     IN  vit' = [vit EXCEPT ![rs.i].E = rs.xE, ![rs.i].N = xN, ![rs.i].J = xJ,
                            ![rs.i].B = xB,
                            ![rs.i].L = Plus(xB, gm.xsc.B.L),
                            ![rs.i].G = Plus(xB, gm.xsc.B.G),
                            ![rs.i].C = ESL_MAX(Plus(p.C, gm.xsc.C.LOOP),
                                                Plus(rs.xE, gm.xsc.E.MOVE))]
  /\ rs' = [rs EXCEPT !.pc = "done"]
  /\ UNCHANGED <<uprm, gm, dsq, tr, fwd, bck, gx, gt, cpvars, ascvars, emvars, auxvars>>

NextSW == SweepRowInit \/ SweepInner \/ SweepLast \/ SweepSpecials

SpecSW == InitSW /\ [][NextSW]_vars

\* The row the sweep leaves is the row of the whole-row form of the
\* recursion.
SweepIsRow ==
  rs.pc = "done" => vit[rs.i] = RefViterbiRow(gm, dsq[rs.i], vit[rs.i - 1])

\* C20: once the ascending sweep has filled row i, the stored delete cells
\* satisfy D(i,k) = max{M(i,k-1) + MD(k-1), D(i,k-1) + DD(k-1)} for every
\* k in 2..M, and D(i,1) = -infinity, for the local and the glocal cells.
C20_claim ==
  rs.pc \in {"specials", "done"} =>
     LET r == vit[rs.i]
         t == gm.tsc
     IN  /\ r.DL[1] = MINUSINF
         /\ r.DG[1] = MINUSINF
         /\ \A k \in 2..gm.M :
              /\ r.DL[k] = ESL_MAX(Plus(r.ML[k-1], t[k-1].MD),
                                   Plus(r.DL[k-1], t[k-1].DD))
              /\ r.DG[k] = ESL_MAX(Plus(r.MG[k-1], t[k-1].MD),
                                   Plus(r.DG[k-1], t[k-1].DD))

C20_witness ==
  /\ rs.pc = "done"
  /\ LET r == vit[rs.i]
         t == gm.tsc
         k == gm.M - 1
     IN  /\ Plus(r.DL[k], t[k].DD) # MINUSINF
         /\ Plus(r.ML[k], t[k].MD) # MINUSINF
         /\ Plus(r.DG[k], t[k].DD) # MINUSINF
         /\ ScGE(Plus(r.DG[k], t[k].DD), Plus(r.MG[k], t[k].MD))

(***************************************************************************)
(* Part 13.  The unfolded glocal entry in the Viterbi trace                *)
(* (reference_viterbi.c, reference_viterbi_traceback and select_mg).       *)
(***************************************************************************)

\* Element z of trace t is a G followed by DG_1 .. DG_k-1 and MG_k for
\* some k in 1..M.
WingUnfoldedAt(t, z, M) ==
  \E k \in 1..M :
     /\ z + k <= Len(t)
     /\ t[z + k].st = "MG"
     /\ t[z + k].k = k
     /\ \A j \in 1..(k - 1) : t[z + j].st = "DG" /\ t[z + j].k = j

\* C19: in the trace p7_ReferenceViterbi returns with eslOK, every G is
\* followed by DG_1 .. DG_k-1 and then MG_k, the match state that
\* select_mg traced back to G: a glocal domain visits every node from 1.
C19_claim ==
  (rs.pc # "start" /\ rs.vstatus = "eslOK")
     => \A z \in 1..Len(tr) : tr[z].st = "G" => WingUnfoldedAt(tr, z, gm.M)

C19_witness ==
  /\ rs.pc = "vit"
  /\ rs.vstatus = "eslOK"
  /\ \E z \in 1..(Len(tr) - gm.M) :
        /\ tr[z].st = "G"
        /\ tr[z + gm.M].st = "MG"
        /\ tr[z + gm.M].k = gm.M
        /\ select_mg(gm, vit, tr[z + gm.M].i, gm.M) = "G"

(***************************************************************************)
(* Part 14.  The E cell of a Viterbi row and the local exits DLk->E that   *)
(* the update leaves out (reference_viterbi.c, lines 116-117 and 142-144). *)
(***************************************************************************)

\* Every transition score of the profile is <= 0: an odds ratio <= 1.
TscNonPositive(g) ==
  \A k \in 0..(g.M - 1) :
     \A f \in {"MM", "IM", "DM", "MD", "MI", "II", "DD", "LM", "GM"} :
        ScGE(SC0, g.tsc[k][f])

RECURSIVE MaxOver(_, _)
MaxOver(f, S) ==
  IF S = {} THEN MINUSINF
  ELSE LET s == CHOOSE x \in S : TRUE
       IN  ESL_MAX(f[s], MaxOver(f, S \ {s}))

\* E(i) with every exit of the implicit model: MLk->E and DLk->E for all
\* k, MG_M->E and DG_M->E.
EWithLocalDeletes(r, M) ==
  ESL_MAX(ESL_MAX(MaxOver(r.ML, 1..M), MaxOver(r.DL, 1..M)),
          ESL_MAX(r.MG[M], r.DG[M]))

\* C21: for a profile whose transition scores are all <= 0, the E that the
\* row sweep stores (the maximum of ML(i,k) for all k, MG(i,M) and DG(i,M))
\* equals the maximum that includes every DL(i,k) as well.
C21_claim ==
  (rs.pc = "done" /\ TscNonPositive(gm))
     => vit[rs.i].E = EWithLocalDeletes(vit[rs.i], gm.M)

C21_witness ==
  /\ rs.pc = "done"
  /\ TscNonPositive(gm)
  /\ rs.i = MaxSweepL
  /\ vit[rs.i].E # MINUSINF
  /\ \A k \in 2..gm.M : vit[rs.i].DL[k] # MINUSINF
  /\ ScGT(vit[rs.i].DL[gm.M], vit[rs.i].DG[gm.M])

(***************************************************************************)
(* Part 15.  The J and C specials that ASC Forward stores on the rows of a *)
(* DOWN sector (reference_asc_fwdback.c, lines 284-294 and 341-351).       *)
(***************************************************************************)

\* The rows of the DOWN sector of domain d: anch[d].i .. anch[d+1].i - 1,
\* or to L for the last domain.
ASCDownRows(a, L, d) ==
  a[d][1]..(IF d < Len(a) THEN a[d + 1][1] - 1 ELSE L)

\* The score of J on DOWN row i of domain d as the recursion states it; on
\* the anchor row no path loops in from the row before.
ASCStatedJ(g, a, md, d, i) ==
  IF d = Len(a) THEN MINUSINF
  ELSE p7_FLogsum(IF i = a[d][1] THEN MINUSINF
                  ELSE Plus(md[i - 1].J.sc, g.xsc.J.LOOP),
                  Plus(md[i].E.sc, g.xsc.E.LOOP))

\* The score of C likewise: C(i-1) + xsc[C][LOOP] with E(i) + xsc[E][MOVE].
ASCStatedC(g, a, md, d, i) ==
  IF d # Len(a) THEN MINUSINF
  ELSE p7_FLogsum(IF i = a[d][1] THEN MINUSINF
                  ELSE Plus(md[i - 1].C.sc, g.xsc.C.LOOP),
                  Plus(md[i].E.sc, g.xsc.E.MOVE))

\* The J cells alone.
ASCDownJStated ==
  (asc.pc = "done" /\ Len(anch) >= 1 /\ AnchorContract(anch, Len(dsq), gm.M))
     => \A d \in 1..Len(anch) : \A i \in ASCDownRows(anch, Len(dsq), d) :
           mxd.dp[i].J.sc = ASCStatedJ(gm, anch, mxd.dp, d, i)

\* C22: on every DOWN row of ASC Forward, J is -inf when d is the last
\* domain and otherwise J(i-1)+xsc[J][LOOP] summed with E(i)+xsc[E][LOOP];
\* C is -inf unless d is the last domain, where it is C(i-1)+xsc[C][LOOP]
\* summed with E(i)+xsc[E][MOVE].
C22_claim ==
  (asc.pc = "done" /\ Len(anch) >= 1 /\ AnchorContract(anch, Len(dsq), gm.M))
     => \A d \in 1..Len(anch) : \A i \in ASCDownRows(anch, Len(dsq), d) :
           /\ mxd.dp[i].J.sc = ASCStatedJ(gm, anch, mxd.dp, d, i)
           /\ mxd.dp[i].C.sc = ASCStatedC(gm, anch, mxd.dp, d, i)

(***************************************************************************)
(* Part 16.  Gamma-centroid alignment (reference_fwdback.c,                *)
(* p7_ReferenceAlign).  A cell holds a gain: -infinity, <<0, 0>>, or a     *)
(* finite value <<1, v>> with v in units of 1/2, so that a posterior       *)
(* probability is 0, 1 or 2 units and gammaterm = -1/(1+gamma) is -1 unit  *)
(* for gamma = 1.  al holds the decoding matrix pp, the alignment matrix   *)
(* and the gain.                                                           *)
(***************************************************************************)

\* -eslINFINITY as a gain
AInf == <<0, 0>>

AFin(v) == <<1, v>>

\* a + n for a gain a and a finite amount n
AAdd(a, n) == IF a[1] = 0 THEN AInf ELSE <<1, a[2] + n>>

\* ESL_MAX on gains
AMax(a, b) ==
  IF a[1] = 0 THEN b ELSE IF b[1] = 0 THEN a ELSE IF a[2] > b[2] THEN a ELSE b

AMax4(a, b, c, d) == AMax(AMax(a, b), AMax(c, d))

\* P7_DELTAT(val, tsc): val if the transition is possible, else impossible.
P7_DELTAT(val, tsc) == IF tsc = MINUSINF THEN AInf ELSE val

\* float gammaterm = -1.0f/(1.0f+gamma), for gamma = 1
GammaTerm == 0 - 1

\* Longest target of the alignment.
MaxAlignL == 2

\* The decoding matrices tried: one posterior for each kind of cell.
AlignPPs == [m : {1, 2}, i : {0, 1}, d : {0, 1}, x : {1, 2}]

\* gm->tsc[k] for k = 0..M as p7_ReferenceAlign reads it: node M has no
\* transitions.
AlignTsc(g, k) ==
  IF k < g.M THEN g.tsc[k]
  ELSE [MM |-> MINUSINF, IM |-> MINUSINF, DM |-> MINUSINF, MD |-> MINUSINF,
        MI |-> MINUSINF, II |-> MINUSINF, DD |-> MINUSINF, LM |-> MINUSINF,
        GM |-> MINUSINF]

\* Initialization of the zero row.
AlignRow0(g, pp) ==
  LET inf == [k \in 0..g.M |-> AInf]
      n == AFin(4 + 2 * GammaTerm)
      b == AAdd(P7_DELTAT(n, g.xsc.N.LOOP), pp.x + GammaTerm)
  IN  [ML |-> inf, MG |-> inf, IL |-> inf, IG |-> inf, DL |-> inf, DG |-> inf,
       E |-> AInf, N |-> n, J |-> AInf, B |-> b,
       L |-> AAdd(P7_DELTAT(b, g.xsc.B.L), pp.x + GammaTerm),
       G |-> AAdd(P7_DELTAT(b, g.xsc.B.G), pp.x + GammaTerm),
       C |-> AInf]

\* Row i >= 1 from row i-1 (p): the loop over k = 1..M with the registers
\* mlv, mgv, dlv, dgv, xE, then the specials.
AlignRow(g, pp, p) ==
  LET M == g.M
      gterm == GammaTerm
      ml == [k \in 0..M |->
              IF k = 0 THEN AInf
              ELSE AAdd(AMax4(P7_DELTAT(p.ML[k-1], AlignTsc(g, k-1).MM),
                              P7_DELTAT(p.IL[k-1], AlignTsc(g, k-1).IM),
                              P7_DELTAT(p.DL[k-1], AlignTsc(g, k-1).DM),
                              P7_DELTAT(p.L, AlignTsc(g, k-1).LM)),
                        pp.m + gterm)]
      mg == [k \in 0..M |->
              IF k = 0 THEN AInf
              ELSE AAdd(AMax4(P7_DELTAT(p.MG[k-1], AlignTsc(g, k-1).MM),
                              P7_DELTAT(p.IG[k-1], AlignTsc(g, k-1).IM),
                              P7_DELTAT(p.DG[k-1], AlignTsc(g, k-1).DM),
                              P7_DELTAT(p.G, AlignTsc(g, k-1).GM)),
                        pp.m + gterm)]
      il == [k \in 0..M |->
              IF k = 0 THEN AInf
              ELSE AAdd(AMax(P7_DELTAT(p.ML[k], AlignTsc(g, k).MI),
                             P7_DELTAT(p.IL[k], AlignTsc(g, k).II)),
                        pp.i + gterm)]
      ig == [k \in 0..M |->
              IF k = 0 THEN AInf
              ELSE AAdd(AMax(P7_DELTAT(p.MG[k], AlignTsc(g, k).MI),
                             P7_DELTAT(p.IG[k], AlignTsc(g, k).II)),
                        pp.i + gterm)]
      \* dlv, dgv as they are when the cells of node k are stored
      dlv[k \in 1..(M + 1)] ==
        IF k = 1 THEN AInf
        ELSE AMax(P7_DELTAT(ml[k-1], AlignTsc(g, k-1).MD),
                  P7_DELTAT(dlv[k-1], AlignTsc(g, k-1).DD))
      dgv[k \in 1..(M + 1)] ==
        IF k = 1 THEN AInf
        ELSE AMax(P7_DELTAT(mg[k-1], AlignTsc(g, k-1).MD),
                  P7_DELTAT(dgv[k-1], AlignTsc(g, k-1).DD))
      xEk[k \in 0..M] ==
        IF k = 0 THEN AInf ELSE AMax(xEk[k-1], AMax(ml[k], dlv[k]))
      e == AAdd(AMax(xEk[M], AMax(mg[M], dgv[M + 1])), pp.x + gterm)
      n == AAdd(P7_DELTAT(p.N, g.xsc.N.LOOP), pp.x + gterm)
      j == AAdd(AMax(P7_DELTAT(p.J, g.xsc.J.LOOP),
                     P7_DELTAT(e, g.xsc.E.LOOP)), pp.x + gterm)
      b == AAdd(AMax(P7_DELTAT(n, g.xsc.N.MOVE),
                     P7_DELTAT(j, g.xsc.J.MOVE)), pp.x + gterm)
  IN  [ML |-> ml, MG |-> mg, IL |-> il, IG |-> ig,
       DL |-> [k \in 0..M |-> IF k = 0 THEN AInf ELSE AAdd(dlv[k], pp.d + gterm)],
       DG |-> [k \in 0..M |-> IF k = 0 THEN AInf ELSE AAdd(dgv[k], pp.d + gterm)],
       E |-> e, N |-> n, J |-> j, B |-> b,
       L |-> AAdd(P7_DELTAT(b, g.xsc.B.L), pp.x + gterm),
       G |-> AAdd(P7_DELTAT(b, g.xsc.B.G), pp.x + gterm),
       C |-> AAdd(AMax(P7_DELTAT(p.C, g.xsc.C.LOOP),
                       P7_DELTAT(e, g.xsc.E.MOVE)), pp.x + gterm)]

\* The matrix p7_ReferenceAlign leaves in rmx: rows 0..L.
AlignMx(g, pp, L) ==
  LET rows[i \in 0..L] ==
        IF i = 0 THEN AlignRow0(g, pp)
        ELSE StoredRow({AlignRow(g, pp, p) : p \in {rows[i-1]}})
  IN  [i \in 0..L |-> rows[i]]

\* The profiles aligned to: those of the brute test, and the same HMMs
\* configured with length model L = 0 (no N, C, J loops).
InitAL ==
  /\ uprm \in ASCBParams
  /\ gm \in {BruteProfile(uprm), EnumProfile(uprm)}
  /\ \E pp \in AlignPPs, L \in 0..MaxAlignL :
       al = [pc |-> "start", pp |-> pp, L |-> L, mx |-> <<>>, gain |-> AInf]
  /\ dsq = Idle /\ gx = Idle /\ tr = Idle /\ gt = Idle
  /\ vit = Idle /\ fwd = Idle /\ bck = Idle /\ rs = Idle
  /\ bnd = Idle /\ dec = Idle
  /\ IdleCP
  /\ IdleASC
  /\ IdleEM

\* p7_ReferenceAlign(gm, gamma, pp, rmx, tr, &gain): the fill and the gain.
\* The traceback p7_reference_trace_MGE() reads the matrix only.
ReferenceAlign ==
  /\ al.pc = "start"
  /\ \E mx \in {AlignMx(gm, al.pp, al.L)} :
       al' = [al EXCEPT !.pc = "done", !.mx = mx,
                        !.gain = AAdd(mx[al.L].C, 2 + GammaTerm)]
  /\ UNCHANGED <<uprm, gm, dsq, tr, vit, fwd, bck, rs, gx, gt, bnd, dec,
                 cpvars, ascvars, emvars>>

NextAL == ReferenceAlign

SpecAL == InitAL /\ [][NextAL]_vars

\* The gain of a cell of posterior pq whose incoming-edge terms are in.
AlignCell(in, pq) == AAdd(in, pq + GammaTerm)

\* The value dlv or dgv had when cell d of posterior pq was stored.
AlignDIn(d, pq) == IF d[1] = 0 THEN AInf ELSE <<1, d[2] - pq - GammaTerm>>

\* Row 0 with each edge under the delta of its own transition: N->B,
\* B->L, B->G.
AlignRow0Stated(g, pp, r) ==
  /\ r.B = AlignCell(P7_DELTAT(r.N, TraceT(g, "N", 0, "B", 0)), pp.x)
  /\ r.L = AlignCell(P7_DELTAT(r.B, TraceT(g, "B", 0, "L", 0)), pp.x)
  /\ r.G = AlignCell(P7_DELTAT(r.B, TraceT(g, "B", 0, "G", 0)), pp.x)

\* Row i >= 1 (r) after row i-1 (p) likewise, for the cells that have
\* incoming transitions of the profile.
AlignRowStated(g, pp, r, p) ==
  LET M == g.M
      T(a, ka, b, kb) == TraceT(g, a, ka, b, kb)
  IN
  /\ \A k \in 1..M :
       /\ r.ML[k] = AlignCell(AMax4(P7_DELTAT(p.ML[k-1], T("ML", k-1, "ML", k)),
                                    P7_DELTAT(p.IL[k-1], T("IL", k-1, "ML", k)),
                                    P7_DELTAT(p.DL[k-1], T("DL", k-1, "ML", k)),
                                    P7_DELTAT(p.L, T("L", 0, "ML", k))), pp.m)
       /\ r.MG[k] = AlignCell(AMax4(P7_DELTAT(p.MG[k-1], T("MG", k-1, "MG", k)),
                                    P7_DELTAT(p.IG[k-1], T("IG", k-1, "MG", k)),
                                    P7_DELTAT(p.DG[k-1], T("DG", k-1, "MG", k)),
                                    P7_DELTAT(p.G, g.tsc[k-1].GM)), pp.m)
       /\ r.IL[k] = AlignCell(AMax(P7_DELTAT(p.ML[k], T("ML", k, "IL", k)),
                                   P7_DELTAT(p.IL[k], T("IL", k, "IL", k))), pp.i)
       /\ r.IG[k] = AlignCell(AMax(P7_DELTAT(p.MG[k], T("MG", k, "IG", k)),
                                   P7_DELTAT(p.IG[k], T("IG", k, "IG", k))), pp.i)
       /\ r.DL[k] = AlignCell(IF k = 1 THEN AInf
                              ELSE AMax(P7_DELTAT(r.ML[k-1], T("ML", k-1, "DL", k)),
                                        P7_DELTAT(AlignDIn(r.DL[k-1], pp.d),
                                                  T("DL", k-1, "DL", k))), pp.d)
       /\ r.DG[k] = AlignCell(IF k = 1 THEN AInf
                              ELSE AMax(P7_DELTAT(r.MG[k-1], T("MG", k-1, "DG", k)),
                                        P7_DELTAT(AlignDIn(r.DG[k-1], pp.d),
                                                  T("DG", k-1, "DG", k))), pp.d)
  /\ r.N = AlignCell(P7_DELTAT(p.N, T("N", 0, "N", 0)), pp.x)
  /\ r.J = AlignCell(AMax(P7_DELTAT(p.J, T("J", 0, "J", 0)),
                          P7_DELTAT(r.E, T("E", 0, "J", 0))), pp.x)
  /\ r.B = AlignCell(AMax(P7_DELTAT(r.N, T("N", 0, "B", 0)),
                          P7_DELTAT(r.J, T("J", 0, "B", 0))), pp.x)
  /\ r.L = AlignCell(P7_DELTAT(r.B, T("B", 0, "L", 0)), pp.x)
  /\ r.G = AlignCell(P7_DELTAT(r.B, T("B", 0, "G", 0)), pp.x)
  /\ r.C = AlignCell(AMax(P7_DELTAT(p.C, T("C", 0, "C", 0)),
                          P7_DELTAT(r.E, T("E", 0, "C", 0))), pp.x)

\* Rows 1..L alone.
AlignRowsStated ==
  al.pc = "done" =>
     \A i \in 1..al.L : AlignRowStated(gm, al.pp, al.mx[i], al.mx[i - 1])

\* C23: in the matrix p7_ReferenceAlign fills, on every row 0..L the term of
\* each incoming edge of each cell is the source value under the delta of
\* the profile's transition for that same edge.
C23_claim ==
  al.pc = "done" =>
     /\ AlignRow0Stated(gm, al.pp, al.mx[0])
     /\ \A i \in 1..al.L : AlignRowStated(gm, al.pp, al.mx[i], al.mx[i - 1])

(***************************************************************************)
(* Part 17.  More on the row layout and the allocation of P7_FILTERMX.     *)
(***************************************************************************)

\* C24: whatever layout Create or GrowTo chose for the sequence length L of
\* the call (full, checkpointed or redlined), Ra >= 0, Rb is 0 or 1,
\* La + Lb + Lc = L with La = Ra and Lc = (Rc+2)(Rc+1)/2 - 1, and either
\* Rb = 0 and Lb = 0, or Rb = 1 and 1 <= Lb <= Rc + 1.
C24_claim ==
  ox.lay \in {"full", "checkpointed", "redlined"} =>
     /\ ox.Ra >= 0
     /\ ox.Rb \in {0, 1}
     /\ ox.La + ox.Lb + ox.Lc = cpcall.L
     /\ ox.La = ox.Ra
     /\ ox.Lc = ((ox.Rc + 2) * (ox.Rc + 1)) \div 2 - 1
     /\ \/ ox.Rb = 0 /\ ox.Lb = 0
        \/ ox.Rb = 1 /\ 1 <= ox.Lb /\ ox.Lb <= ox.Rc + 1

C24_witness ==
  /\ ox.lay = "redlined"
  /\ cpcall.op = "GrowTo"
  /\ ox.Rb = 1
  /\ ox.Lb >= 1
  /\ ox.Rc >= 2


\* C25: after Create and after every GrowTo, in any sequence of GrowTo and
\* Reuse calls, R0+Ra+Rb+Rc <= validR <= allocR and
\* nalloc >= validR * allocW: every valid row lies inside the buffer.
C25_claim ==
  /\ ox.R0 + ox.Ra + ox.Rb + ox.Rc <= ox.validR
  /\ ox.validR <= ox.allocR
  /\ ox.nalloc >= ox.validR * ox.allocW


C25_witness ==
  /\ cpcall.op = "GrowTo"
  /\ ox.R0 + ox.Ra + ox.Rb + ox.Rc < ox.validR
  /\ ox.validR < ox.allocR
  /\ ox.nalloc > ox.validR * ox.allocW

(***************************************************************************)
(* Part 18.  The cells the Viterbi traceback evaluates.                    *)
(***************************************************************************)

\* The cells that one pass of the switch in reference_viterbi_traceback()
\* reads for the state sprv at (i, k): <<lowest row, lowest column>> of the
\* P7R_MX / P7R_XMX reads of the select_*() function called; specials are
\* in no column.
RefTraceReads(M, sprv, i, k) ==
  CASE sprv \in {"ML", "MG"} -> [row |-> i - 1, col |-> k - 1, main |-> TRUE]
    [] sprv \in {"IL", "IG"} -> [row |-> i - 1, col |-> k, main |-> TRUE]
    [] sprv \in {"DL", "DG"} -> [row |-> i, col |-> k - 1, main |-> TRUE]
    [] sprv = "E"            -> [row |-> i, col |-> 1, main |-> FALSE]
    [] sprv \in {"J", "C"}   -> [row |-> i - 1, col |-> 0, main |-> FALSE]
    [] sprv = "B"            -> [row |-> i, col |-> 0, main |-> FALSE]
    [] OTHER                 -> [row |-> i, col |-> 0, main |-> FALSE]

\* The while loop of reference_viterbi_traceback() followed from (sprv, i,
\* k) for as long as every read lies in rows 0..L and every main state
\* evaluated lies in a column k >= 1: where it ends, and whether it met a
\* read outside.  n counts the passes.
RECURSIVE RefTraceWalk(_, _, _, _, _, _)
RefTraceWalk(g, mx, sprv, i, k, n) ==
  IF sprv = "S" THEN [at |-> "S", i |-> i, k |-> k, outside |-> FALSE, n |-> n]
  ELSE IF sprv \notin RefTraceStates
    THEN [at |-> sprv, i |-> i, k |-> k, outside |-> FALSE, n |-> n]
  ELSE
    LET rd == RefTraceReads(g.M, sprv, i, k)
    IN  IF rd.row < 0 \/ rd.col < 0 \/ (rd.main /\ k < 1)
          THEN [at |-> sprv, i |-> i, k |-> k, outside |-> TRUE, n |-> n]
        ELSE
          LET sel == CASE sprv = "ML" -> <<select_ml(g, mx, i, k), k - 1, i - 1>>
                       [] sprv = "MG" -> <<select_mg(g, mx, i, k), k - 1, i - 1>>
                       [] sprv = "IL" -> <<select_il(g, mx, i, k), k, i - 1>>
                       [] sprv = "IG" -> <<select_ig(g, mx, i, k), k, i - 1>>
                       [] sprv = "DL" -> <<select_dl(g, mx, i, k), k - 1, i>>
                       [] sprv = "DG" -> <<select_dg(g, mx, i, k), k - 1, i>>
                       [] sprv = "E"  -> <<select_e(g, mx, i)[1], select_e(g, mx, i)[2], i>>
                       [] sprv = "N"  -> <<select_n(i), k, i>>
                       [] sprv = "J"  -> <<select_j(g, mx, i, NoJunk), k, i>>
                       [] sprv = "B"  -> <<select_b(g, mx, i), k, i>>
                       [] sprv = "L"  -> <<"B", k, i>>
                       [] sprv = "G"  -> <<"B", k, i>>
                       [] sprv = "C"  -> <<select_c(g, mx, i, NoJunk), k, i>>
              scur == sel[1]
              k1   == IF scur = "G" THEN 0 ELSE sel[2]
              i2   == IF scur \in {"N", "J", "C"} /\ scur = sprv
                        THEN sel[3] - 1 ELSE sel[3]
          IN  RefTraceWalk(g, mx, scur, i2, k1, n + 1)

\* C26: whenever the Viterbi fill leaves a finite C(L), the traceback run on
\* that matrix ends in state S with i = 0, having evaluated no cell in a
\* row before row 0 and no main state in a column k < 1.
C26_claim ==
  (rs.pc # "start" /\ vit[Len(dsq)].C # MINUSINF) =>
     LET w == RefTraceWalk(gm, vit, "C", Len(dsq), 0, 0)
     IN  /\ w.at = "S" /\ w.i = 0 /\ ~w.outside
         /\ rs.vstatus = "eslOK"
         /\ tr[1].st = "S" /\ tr[1].i = 0

C26_witness ==
  /\ rs.pc = "vit"
  /\ vit[Len(dsq)].C # MINUSINF
  /\ Len(dsq) >= 2
  /\ RefTraceWalk(gm, vit, "C", Len(dsq), 0, 0).at = "S"
  /\ RefTraceWalk(gm, vit, "C", Len(dsq), 0, 0).n >= 8
  /\ \E z \in 1..Len(tr) : tr[z].st = "ML" /\ tr[z].k = 1 /\ tr[z].i = 1
  /\ \E z \in 1..Len(tr) : tr[z].st \in {"IL", "IG"}

(***************************************************************************)
(* Part 19.  The loop over domains of p7_ReferenceASCDecoding              *)
(* (reference_asc_fwdback.c).  dec holds the loop variable d, the domains  *)
(* processed in order, the indices of anch[] read, and the rows of the UP  *)
(* and DOWN matrices decoded; the posterior values are left out.  Anchor   *)
(* d of the code is anch[d + 1] here.                                      *)
(***************************************************************************)

\* Longest target of the decoding loop.
MaxDecL == 3

\* Passes of the loop over domains that are followed.
MaxDecPasses == 4

\* What a read of anch[d].n1 yields: the anchor's row for d in 0..D-1, and
\* whatever lies next to the array for an index outside it.
DecAnchorRows(a, L, d) ==
  IF d >= 0 /\ d < Len(a) THEN {a[d + 1][1]} ELSE (0 - 2)..(L + 1)

InitDEC ==
  /\ \E L \in 1..MaxDecL :
       /\ anch \in {a \in GoodAnchors(L, 2) : Len(a) >= 1}
       /\ dec = [pc |-> "start", L |-> L, D |-> Len(anch), d |-> 0,
                 order |-> <<>>, reads |-> {}, up |-> {}, down |-> {}]
  /\ gm = Idle /\ dsq = Idle /\ gx = Idle /\ tr = Idle /\ gt = Idle
  /\ mxu = Idle /\ mxd = Idle /\ asc = Idle
  /\ al = Idle /\ bnd = Idle
  /\ IdleCP
  /\ IdleDP
  /\ IdleEM

\* for (i = 0; i < anch[0].n1; i++): the specials above the first anchor.
ASCDecodingInit ==
  /\ dec.pc = "start"
  /\ dec' = [dec EXCEPT !.pc = "loop", !.d = 0, !.reads = {0},
                        !.down = 0..(anch[1][1] - 1)]
  /\ UNCHANGED <<anch, gm, dsq, gx, tr, gt, mxu, mxd, asc, al, bnd,
                 cpvars, dpvars, emvars>>

\* One pass of for (d = 0; d < D; d++).  The statement
\* iend = (d = 0 ? 1 : anch[d-1].n1 + 1) is iend = (d = (0 ? 1 : ...)):
\* the condition is the constant 0, and d and iend both become
\* anch[d-1].n1 + 1 for the d the pass began with.  Then the UP rows
\* iend..anch[d].n1-1 and the DOWN rows anch[d].n1..iend-1 with
\* iend = (d == D-1 ? L+1 : anch[d+1].n1), and d++.
ASCDecodingDomain ==
  /\ dec.pc = "loop"
  /\ dec.d < dec.D
  /\ Len(dec.order) < MaxDecPasses
  /\ \E n1 \in DecAnchorRows(anch, dec.L, dec.d - 1) :
       LET d == n1 + 1
       IN  \E r0 \in DecAnchorRows(anch, dec.L, d) :
           \E r1 \in (IF d = dec.D - 1 THEN {dec.L + 1}
                      ELSE DecAnchorRows(anch, dec.L, d + 1)) :
              dec' = [dec EXCEPT
                        !.d = d + 1,
                        !.order = Append(dec.order, d),
                        !.reads = dec.reads \cup {dec.d - 1, d}
                                    \cup (IF d = dec.D - 1 THEN {} ELSE {d + 1}),
                        !.up = dec.up \cup (d..(r0 - 1)),
                        !.down = dec.down \cup (r0..(r1 - 1))]
  /\ UNCHANGED <<anch, gm, dsq, gx, tr, gt, mxu, mxd, asc, al, bnd,
                 cpvars, dpvars, emvars>>

\* d < D fails: return eslOK.
ASCDecodingReturn ==
  /\ dec.pc = "loop"
  /\ dec.d >= dec.D
  /\ dec' = [dec EXCEPT !.pc = "done"]
  /\ UNCHANGED <<anch, gm, dsq, gx, tr, gt, mxu, mxd, asc, al, bnd,
                 cpvars, dpvars, emvars>>

NextDEC == ASCDecodingInit \/ ASCDecodingDomain \/ ASCDecodingReturn

SpecDEC == InitDEC /\ [][NextDEC]_vars

\* C27: p7_ReferenceASCDecoding processes the domains d = 0, 1, ..., D-1
\* once each in increasing order, returns after the last, and reads only
\* anchors whose index lies in 0..D-1.
C27_claim ==
  dec.pc # "start" =>
     /\ \A z \in 1..Len(dec.order) : dec.order[z] = z - 1
     /\ Len(dec.order) <= dec.D
     /\ dec.pc = "done" => Len(dec.order) = dec.D
     /\ \A x \in dec.reads : 0 <= x /\ x <= dec.D - 1

\* The parts of C27 apart: the order of the domains, the indices read.
C27_order ==
  \A z \in 1..Len(dec.order) : dec.order[z] = z - 1

C27_reads ==
  \A x \in dec.reads : 0 <= x /\ x <= dec.D - 1

(***************************************************************************)
(* Part 20.  P7_GBANDS (p7_gbands.c): the list of banded rows.  imem holds *)
(* ia, ib for segments 0..nseg-1 and kmem holds ka, kb for rows            *)
(* 0..nrow-1, both as sequences of their entries in use (index z of the    *)
(* code is z + 1 here); what lies beyond is never read.                    *)
(***************************************************************************)

\* Longest target and model of the bands.
MaxBandL == 9

MaxBandM == 2

init_segalloc == 4

init_rowalloc == 64

p7_gbands_Create(L, M) ==
  [nseg |-> 0, nrow |-> 0, L |-> L, M |-> M, ncell |-> 0,
   imem |-> <<>>, kmem |-> <<>>,
   segalloc |-> init_segalloc, rowalloc |-> init_rowalloc]

p7_gbands_Reinit(b, L, M) ==
  [b EXCEPT !.nseg = 0, !.nrow = 0, !.L = L, !.M = M, !.ncell = 0,
            !.imem = <<>>, !.kmem = <<>>]

p7_gbands_Reuse(b) ==
  [b EXCEPT !.nseg = 0, !.nrow = 0, !.L = 0, !.M = 0, !.ncell = 0,
            !.imem = <<>>, !.kmem = <<>>]

p7_gbands_GrowSegs(b) == [b EXCEPT !.segalloc = b.segalloc * 2]

p7_gbands_GrowRows(b) == [b EXCEPT !.rowalloc = b.rowalloc * 2]

\* Append that starts a new segment for every row after the last one.
p7_gbands_Append_mut(b, i, ka, kb) ==
  LET b1 == IF b.nseg = 0 \/ i > b.imem[(b.nseg - 1) * 2 + 1 + 1]
              THEN LET g == IF b.nseg = b.segalloc THEN p7_gbands_GrowSegs(b) ELSE b
                   IN  [g EXCEPT !.imem = b.imem \o <<i, i>>, !.nseg = b.nseg + 1]
              ELSE [b EXCEPT !.imem[(b.nseg - 1) * 2 + 1 + 1] = @ + 1]
      b2 == IF b1.nrow = b1.rowalloc THEN p7_gbands_GrowRows(b1) ELSE b1
  IN  [b2 EXCEPT !.kmem = b1.kmem \o <<ka, kb>>, !.nrow = b1.nrow + 1,
                 !.ncell = b1.ncell + (kb - ka + 1)]

p7_gbands_Append(b, i, ka, kb) ==
  LET b1 == IF b.nseg = 0 \/ i > 1 + b.imem[(b.nseg - 1) * 2 + 1 + 1]
              THEN LET g == IF b.nseg = b.segalloc THEN p7_gbands_GrowSegs(b) ELSE b
                   IN  [g EXCEPT !.imem = b.imem \o <<i, i>>, !.nseg = b.nseg + 1]
              ELSE [b EXCEPT !.imem[(b.nseg - 1) * 2 + 1 + 1] = @ + 1]
      b2 == IF b1.nrow = b1.rowalloc THEN p7_gbands_GrowRows(b1) ELSE b1
  IN  [b2 EXCEPT !.kmem = b1.kmem \o <<ka, kb>>, !.nrow = b1.nrow + 1,
                 !.ncell = b1.ncell + (kb - ka + 1)]

\* The last row appended since Create, Reinit or Reuse; 0 if none.
BandLastRow(b) == IF b.nseg = 0 THEN 0 ELSE b.imem[(b.nseg - 1) * 2 + 1 + 1]

InitGB ==
  /\ bnd = p7_gbands_Create(MaxBandL, MaxBandM)
  /\ al = Idle /\ dec = Idle
  /\ IdleCP
  /\ IdleGT
  /\ IdleDP
  /\ IdleASC
  /\ IdleEM

\* p7_gbands_Append(bnd, i, ka, kb), called in ascending order of i.
GbandsAppend ==
  /\ \E i \in (BandLastRow(bnd) + 1)..MaxBandL :
     \E ka \in 1..MaxBandM, kb \in 1..MaxBandM :
        /\ ka <= kb
        /\ bnd' = p7_gbands_Append(bnd, i, ka, kb)
  /\ UNCHANGED <<al, dec, cpvars, gtvars, dpvars, ascvars, emvars>>

GbandsReinit ==
  /\ bnd.nrow > 0
  /\ bnd' = p7_gbands_Reinit(bnd, MaxBandL, MaxBandM)
  /\ UNCHANGED <<al, dec, cpvars, gtvars, dpvars, ascvars, emvars>>

GbandsReuse ==
  /\ bnd.nrow > 0
  /\ bnd' = p7_gbands_Reuse(bnd)
  /\ UNCHANGED <<al, dec, cpvars, gtvars, dpvars, ascvars, emvars>>

NextGB == GbandsAppend \/ GbandsReinit \/ GbandsReuse

SpecGB == InitGB /\ [][NextGB]_vars

\* ia and ib of segment g = 1..nseg, ka and kb of row r = 1..nrow.
BandIa(b, g) == b.imem[(g - 1) * 2 + 1]

BandIb(b, g) == b.imem[(g - 1) * 2 + 2]

RECURSIVE BandSum(_, _)
BandSum(f, n) == IF n = 0 THEN 0 ELSE f[n] + BandSum(f, n - 1)

\* C30: after Create, Reinit or Reuse and any Append calls in ascending
\* order of i, every segment has ia <= ib, consecutive segments are apart
\* by at least one absent row (ia[g+1] >= ib[g] + 2), nrow is the sum of
\* the segment lengths ib - ia + 1, and ncell is the sum of kb - ka + 1
\* over the rows appended.
C30_claim ==
  /\ \A g \in 1..bnd.nseg : BandIa(bnd, g) <= BandIb(bnd, g)
  /\ \A g \in 1..(bnd.nseg - 1) : BandIa(bnd, g + 1) >= BandIb(bnd, g) + 2
  /\ bnd.nrow = BandSum([g \in 1..bnd.nseg |->
                           BandIb(bnd, g) - BandIa(bnd, g) + 1], bnd.nseg)
  /\ bnd.ncell = BandSum([r \in 1..bnd.nrow |->
                            bnd.kmem[(r - 1) * 2 + 2] - bnd.kmem[(r - 1) * 2 + 1] + 1],
                         bnd.nrow)

C30_witness ==
  /\ bnd.nseg = init_segalloc + 1
  /\ bnd.segalloc = 2 * init_segalloc
  /\ bnd.L = 0
  /\ bnd.nrow = 5
  /\ bnd.ncell > bnd.nrow

(***************************************************************************)
(* Part 21.  The rows and residues p7_ReferenceBackward touches.           *)
(***************************************************************************)

\* Targets of length 1 or more: all accesses are inside.
BackwardInsideFrom1 ==
  (rs.pc = "bck" /\ Len(dsq) >= 1) =>
     /\ rs.bacc.rd \subseteq 0..Len(dsq)
     /\ rs.bacc.wr \subseteq 0..Len(dsq)
     /\ rs.bacc.x \subseteq 1..Len(dsq)

\* C28: for every L >= 0, the empty target included, Backward reads and
\* writes only the rows 0..L of the matrix and reads only the residues
\* dsq[1..L].
C28_claim ==
  rs.pc = "bck" =>
     /\ rs.bacc.rd \subseteq 0..Len(dsq)
     /\ rs.bacc.wr \subseteq 0..Len(dsq)
     /\ rs.bacc.x \subseteq 1..Len(dsq)

(***************************************************************************)
(* Part 22.  The domains of p7_ProfileEmit.                                *)
(***************************************************************************)

\* The positions of the B states of a trace: each starts a domain.
EmDomainStarts(t) == {b \in 1..Len(t) : t[b].st = "B"}

\* The position that ends the domain begun at b: that of its E, or one past
\* the trace while the domain is still being sampled.
EmDomainEnd(t, b) ==
  IF \E e \in (b + 1)..Len(t) : t[e].st = "E"
    THEN CHOOSE e \in (b + 1)..Len(t) :
           t[e].st = "E" /\ \A z \in (b + 1)..(e - 1) : t[z].st # "E"
    ELSE Len(t) + 1

\* kstart, kend and the states of the domains sampled so far, as the trace
\* and the locals k, kend show them.  kend of the domain sampled last is the
\* local kend; an earlier domain has left at the k of its last state.
EmDomainBounds(t, M, kend, b) ==
  LET e      == EmDomainEnd(t, b)
      latest == \A b2 \in EmDomainStarts(t) : b2 <= b
      kstart == t[b + 1].k
      ke     == IF latest THEN kend ELSE t[e - 1].k
  IN  e > b + 1 =>
        /\ t[b + 1].st = "M"
        /\ 1 <= kstart /\ kstart <= ke /\ ke <= M
        /\ \A z \in (b + 1)..(e - 1) :
              t[z].st \in {"M", "I", "D"} /\ kstart <= t[z].k /\ t[z].k <= ke
        /\ e <= Len(t) => (t[e - 1].st \in {"M", "D"} /\ t[e - 1].k = ke)

\* C29: in p7_ProfileEmit every domain sampled has 1 <= kstart <= kend <= M,
\* k stays within kstart..kend for the whole domain, and the domain leaves
\* for E from an M or a D state at k = kend, and from there only.
C29_claim ==
  (em.fn = "profile" /\ em.pc \in {"loop", "done"} /\ em.trp) =>
     /\ \A b \in EmDomainStarts(em.tr) :
           EmDomainBounds(em.tr, em.hmm.M, em.kend, b)
     /\ em.st \in {"M", "I", "D"} => (1 <= em.k /\ em.k <= em.kend)

C29_witness ==
  /\ em.fn = "profile" /\ em.pc = "done" /\ em.trp
  /\ Cardinality(EmDomainStarts(em.tr)) = 2
  /\ \E z \in 1..(Len(em.tr) - 1) : em.tr[z].st = "D" /\ em.tr[z + 1].st = "E"
  /\ \E z \in 1..(Len(em.tr) - 1) :
        em.tr[z].st = "M" /\ em.tr[z + 1].st = "E" /\ em.tr[z].k < em.hmm.M

====
